---- MODULE Spec2Model ----
(***************************************************************************)
(* Model of the multi-account IMAP synchronization engine:                 *)
(* IMAPSyncManager (connection lifecycle, backfill, new-mail handling,     *)
(* the per-message pipeline processEmail), ElasticsearchService            *)
(* (emailExists / indexEmail), EmailCategorizationService (classifyEmail / *)
(* categorizeEmail), NotificationService and main().                       *)
(*                                                                         *)
(* JavaScript strings are modelled as sequences of one-character strings,  *)
(* so that trim / toUpperCase / includes / template concatenation are      *)
(* computed as the code computes them.                                     *)
(***************************************************************************)
EXTENDS Integers, Sequences, FiniteSets, Bags, TLC

VARIABLES
    mainPc,           \* main(): "created", "initES", "awaitAll", "started", "exited"
    isRunning,        \* IMAPSyncManager.isRunning
    connState,        \* per account: state of account.connection (imap.state)
    isConnected,      \* per account: account.isConnected
    syncPc,           \* per account: position of connectAndSync's callback chain
    mailbox,          \* per account: uids of the messages in INBOX on the server
    uidNext,          \* per account: the uid the server gives the next message
    unparsable,       \* per account: uids of the messages simpleParser rejects
    expunged,         \* number of messages removed from a mailbox so far
    lastProcessedUID, \* per account: IMAPSyncManager.lastProcessedUID (0: no entry)
    batch,            \* per account: the array uids collected by syncRecentEmails
    cycles,           \* bag of handleNewMail invocations waiting for a callback
    tasks,            \* bag of per-message handlers (msg 'end' -> processEmail)
    store,            \* the documents of the search index
    storeUp,          \* whether the search index answers requests
    writeFailed,      \* history: identity keys for which indexEmail threw
    runs,             \* sequential scenario: the processEmail calls made so far
    snap,             \* sequential scenario: the store when the latest call was made
    cIn,              \* classifyEmail: response.text of the classifier call
    cOut,             \* classifyEmail: the category returned for cIn
    cSubject,         \* classifyEmail: email.subject
    cCall,            \* classifyEmail: "pending", or how generateContent ended
    slackWebhookUrl,  \* NotificationService.slackWebhookUrl ("" when not configured)
    externalWebhookUrl, \* NotificationService.externalWebhookUrl ("" when not configured)
    sinkCalls,        \* history: bag of the axios.post calls made to the sinks
    reconn,           \* per account: the connection opened by connectToAccount
    apiReq,           \* a call of a public operation and its arguments
    apiRes,           \* how that call completed and with what
    templates,        \* ReplyVectorStore.templates, the array of reply templates
    embedCalls,       \* addTemplate and updateTemplate calls awaiting generateEmbedding
    idsIssued         \* how many template ids addTemplate has generated

(***************************************************************************)
(* Strings                                                                 *)
(***************************************************************************)
LowerToUpper ==
    [a |-> "A", b |-> "B", c |-> "C", d |-> "D", e |-> "E", f |-> "F", g |-> "G",
     h |-> "H", i |-> "I", j |-> "J", k |-> "K", l |-> "L", m |-> "M", n |-> "N",
     o |-> "O", p |-> "P", q |-> "Q", r |-> "R", s |-> "S", t |-> "T", u |-> "U",
     v |-> "V", w |-> "W", x |-> "X", y |-> "Y", z |-> "Z", eacute |-> "EACUTE"]

UpperToLower ==
    [A |-> "a", B |-> "b", C |-> "c", D |-> "d", E |-> "e", F |-> "f", G |-> "g",
     H |-> "h", I |-> "i", J |-> "j", K |-> "k", L |-> "l", M |-> "m", N |-> "n",
     O |-> "o", P |-> "p", Q |-> "q", R |-> "r", S |-> "s", T |-> "t", U |-> "u",
     V |-> "v", W |-> "w", X |-> "x", Y |-> "y", Z |-> "z", EACUTE |-> "eacute"]

\* String.prototype.toUpperCase, character by character ("eacute" stands for
\* the non-ASCII letter U+00E9, "EACUTE" for U+00C9).
ToUpperCase(str) ==
    [i \in 1..Len(str) |->
        IF str[i] \in DOMAIN LowerToUpper THEN LowerToUpper[str[i]] ELSE str[i]]

\* String.prototype.toLowerCase
ToLowerCase(str) ==
    [i \in 1..Len(str) |->
        IF str[i] \in DOMAIN UpperToLower THEN UpperToLower[str[i]] ELSE str[i]]

WhiteSpace == {" ", "\t", "\n"}

\* String.prototype.trim: drops leading and trailing white space.
Trim(str) ==
    LET keep == {i \in 1..Len(str) : str[i] \notin WhiteSpace}
    IN  IF keep = {} THEN <<>>
        ELSE LET lo == CHOOSE i \in keep : \A j \in keep : i <= j
                 hi == CHOOSE i \in keep : \A j \in keep : i >= j
             IN  SubSeq(str, lo, hi)

\* String.prototype.includes: pat occurs in str as a contiguous substring.
Includes(str, pat) ==
    \E i \in 0..(Len(str) - Len(pat)) : SubSeq(str, i + 1, i + Len(pat)) = pat

(***************************************************************************)
(* EmailCategorizationService.classifyEmail: mapping of the response text  *)
(***************************************************************************)
NoCategory == "none"    \* emailWithCategory.category left undefined

\* the array validCategories, in the order of the source
validCategories ==
    <<"INTERESTED", "MEETING_BOOKED", "NOT_INTERESTED", "SPAM", "OUT_OF_OFFICE">>

CategoryLabel == {validCategories[i] : i \in 1..Len(validCategories)}

\* the characters of each label
LabelText ==
    [INTERESTED     |-> <<"I","N","T","E","R","E","S","T","E","D">>,
     MEETING_BOOKED |-> <<"M","E","E","T","I","N","G","_","B","O","O","K","E","D">>,
     NOT_INTERESTED |-> <<"N","O","T","_","I","N","T","E","R","E","S","T","E","D">>,
     SPAM           |-> <<"S","P","A","M">>,
     OUT_OF_OFFICE  |-> <<"O","U","T","_","O","F","_","O","F","F","I","C","E">>]

\* (variant: a text with no label is passed on as the category)
MapResponsePassThrough(rawResponse) ==
    LET text == ToUpperCase(Trim(rawResponse))
        hits == {i \in 1..Len(validCategories) : Includes(text, LabelText[validCategories[i]])}
    IN  IF hits = {} THEN "UNRECOGNIZED"
        ELSE validCategories[CHOOSE i \in hits : \A j \in hits : i <= j]

\* text = rawResponse.trim().toUpperCase(); for (const category of
\* validCategories) if (text.includes(category)) return category; return 'SPAM'
MapResponse(rawResponse) ==
    LET text == ToUpperCase(Trim(rawResponse))
        hits == {i \in 1..Len(validCategories) : Includes(text, LabelText[validCategories[i]])}
    IN  IF hits = {} THEN "SPAM"
        ELSE validCategories[CHOOSE i \in hits : \A j \in hits : i <= j]

\* (variant: the keyword rules are applied to the subject as it is written)
FallbackRuleCaseSensitive(subject) ==
    IF Includes(subject, <<"o","u","t"," ","o","f"," ","o","f","f","i","c","e">>)
        THEN "OUT_OF_OFFICE"
    ELSE IF Includes(subject, <<"m","e","e","t","i","n","g"," ","c","o","n","f","i","r","m","e","d">>)
        THEN "MEETING_BOOKED"
    ELSE IF Includes(subject, <<"m","a","k","e"," ","m","o","n","e","y"," ","f","a","s","t">>)
        THEN "SPAM"
    ELSE "throw"

\* (variant: a subject that matches no rule is given the empty label)
FallbackRuleEmptyLabel(subject) ==
    IF FallbackRuleCaseSensitive(ToLowerCase(subject)) = "throw" THEN ""
    ELSE FallbackRuleCaseSensitive(ToLowerCase(subject))

\* the catch branch of classifyEmail: keyword rules on the lower-cased subject,
\* "throw" when none matches
FallbackRule(subject) ==
    LET s == ToLowerCase(subject)
    IN  IF Includes(s, <<"o","u","t"," ","o","f"," ","o","f","f","i","c","e">>)
            THEN "OUT_OF_OFFICE"
        ELSE IF Includes(s, <<"m","e","e","t","i","n","g"," ","c","o","n","f","i","r","m","e","d">>)
            THEN "MEETING_BOOKED"
        ELSE IF Includes(s, <<"m","a","k","e"," ","m","o","n","e","y"," ","f","a","s","t">>)
            THEN "SPAM"
        ELSE "throw"

\* the try block of the other copy of classifyEmail: the trimmed response is
\* returned when isValidCategory finds it among the labels, SPAM otherwise
MapResponseExact(rawResponse) ==
    LET text == Trim(rawResponse)
    IN  IF \E l \in CategoryLabel : LabelText[l] = text
        THEN CHOOSE l \in CategoryLabel : LabelText[l] = text
        ELSE "SPAM"

\* classifyEmail: outcome is what generateContent did, <<"text", raw>> when it
\* answered raw and <<"error">> when the call failed
ClassifyEmail(subject, outcome) ==
    IF outcome[1] = "text" THEN MapResponse(outcome[2]) ELSE FallbackRule(subject)

\* categorizeEmail: the label of classifyEmail, or its error re-thrown
CategorizeEmail(subject, outcome) == ClassifyEmail(subject, outcome)

(***************************************************************************)
(* Accounts, mailboxes and the search index                                *)
(***************************************************************************)
\* this.accounts, by accountName (the configuration is fixed at construction)
Accounts == {"A", "B"}

\* config.accountName as a string
AccountName == [A |-> <<"A">>, B |-> <<"B">>]

INBOX == <<"I","N","B","O","X">>

MaxMsgs == 2        \* messages delivered to the mailboxes, all accounts together
MaxExpunged == 1    \* messages removed from the mailboxes, all accounts together
BatchMsgs == 3      \* messages of the mailbox in the backfill scenario
FirstUID == 101     \* uid of the first message of a mailbox

BackfillSpan == 9   \* Math.max(1, totalMessages - 9)

Max(S) == CHOOSE x \in S : \A y \in S : x >= y

Min(S) == CHOOSE x \in S : \A y \in S : x <= y

\* sequence number of the message with uid u in mailbox mbox
SeqNo(mbox, u) == Cardinality({v \in mbox : v <= u})

\* (variant: the fetch returns every message of the mailbox)
SeqFetchWhole(mbox, startSeq, endSeq) == mbox

\* imap.seq.fetch(`${startSeq}:${endSeq}`): the uids of the messages whose
\* sequence numbers lie in the range
SeqFetch(mbox, startSeq, endSeq) ==
    {u \in mbox : SeqNo(mbox, u) >= startSeq /\ SeqNo(mbox, u) <= endSeq}

\* imap.search([['UID', `${from}:*`]]): '*' is the highest uid of the mailbox
\* and a range covers the uids between its ends in either order (RFC 3501,
\* 6.4.8), so the last message is always part of the result
SearchUidFrom(mbox, from) ==
    IF mbox = {} THEN {}
    ELSE LET top == Max(mbox)
         IN  {u \in mbox : u >= Min({from, top}) /\ u <= Max({from, top})}

DigitChar == <<"0","1","2","3","4","5","6","7","8","9">>

\* `${uid}`: the decimal digits of a non-negative integer
RECURSIVE Digits(_)
Digits(n) ==
    IF n < 10 THEN <<DigitChar[n + 1]>>
    ELSE Digits(n \div 10) \o <<DigitChar[(n % 10) + 1]>>

\* `${accountName}-${folder}-${uid}`
DocumentId(accountName, folder, uid) ==
    accountName \o <<"-">> \o folder \o <<"-">> \o Digits(uid)

\* (variant: the existence check never finds the document)
EmailExistsNever(a, folder, uid) == FALSE

\* (variant: an error of the store is answered true)
EmailExistsErrorTrue(a, folder, uid) ==
    IF storeUp
    THEN \E d \in store : d.id = DocumentId(AccountName[a], folder, uid)
    ELSE TRUE

\* emailExists: client.exists on the document id; an error of the store is
\* caught and answered false
EmailExists(a, folder, uid) ==
    IF storeUp
    THEN \E d \in store : d.id = DocumentId(AccountName[a], folder, uid)
    ELSE FALSE

\* (variant: the document is added without replacing the one with its id)
IndexEmailAppend(docs, doc) == docs \cup {doc}

\* indexEmail: client.index with id documentId creates the document or
\* replaces the one stored under that id
IndexEmail(docs, doc) == {d \in docs : d.id # doc.id} \cup {doc}

\* the document indexEmail writes for a message and its category
Document(a, folder, uid, category) ==
    [id |-> DocumentId(AccountName[a], folder, uid),
     accountName |-> a, folder |-> folder, uid |-> uid, category |-> category]

\* the records stored for an identity key
RecordsOf(a, folder, uid) ==
    {d \in store : d.accountName = a /\ d.folder = folder /\ d.uid = uid}

Persisted(a, uid) == RecordsOf(a, INBOX, uid) # {}

PersistedUids(a) == {d.uid : d \in {e \in store : e.accountName = a /\ e.folder = INBOX}}

\* parsed.subject of the message with uid u: the mailboxes of the model hold
\* a subject no fallback rule matches and two that a rule matches
SubjectOf(u) ==
    LET k == (u - FirstUID) % 3
    IN  IF k = 0 THEN <<"H","e","l","l","o">>
        ELSE IF k = 1 THEN <<"M","e","e","t","i","n","g"," ","c","o","n","f","i","r","m","e","d",
                             " ","f","o","r"," ","T","u","e","s","d","a","y">>
        ELSE <<"O","u","t"," ","o","f"," ","O","f","f","i","c","e">>

\* what a generateContent call can do in the system model
ClassifierOutcomes ==
    { <<"text", <<"I","N","T","E","R","E","S","T","E","D">>>>,
      <<"text", <<"S","p","a","m","\n">>>>,
      <<"error">> }

\* process.exit has not been called
Alive == mainPc \notin {"exited", "stopped"}

\* the promise of connectAndSync(a)
ConnectPromise(a) ==
    IF syncPc[a] = "watching" THEN "resolved"
    ELSE IF syncPc[a] = "rejected" THEN "rejected"
    ELSE "pending"

TasksOf(a) == {t \in BagToSet(tasks) : t.acct = a}

CyclesOf(a) == {c \in BagToSet(cycles) : c.acct = a}

Task(a, uid, pc, cat, src) ==
    [acct |-> a, uid |-> uid, pc |-> pc, cat |-> cat, src |-> src]

\* the bag b with every copy of the elements of S removed
Without(b, S) == [x \in (BagToSet(b) \ S) |-> b[x]]

One(x) == SetToBag({x})

(***************************************************************************)
(* State                                                                   *)
(***************************************************************************)
\* no call of the query facade has been made
NoRequest == [op |-> "none"]

NoResponse == [completion |-> "none"]

lifecycleVars == <<mainPc, isRunning, connState, isConnected, syncPc>>
serverVars == <<mailbox, uidNext, unparsable, expunged>>
scenarioVars == <<runs, snap, cIn, cOut, cSubject, cCall>>
sinkVars == <<slackWebhookUrl, externalWebhookUrl, sinkCalls>>
facadeVars == <<apiReq, apiRes>>
replyVars == <<templates, embedCalls, idsIssued>>

vars == <<mainPc, isRunning, connState, isConnected, syncPc, mailbox, uidNext,
          unparsable, expunged, lastProcessedUID, batch, cycles, tasks, store,
          storeUp, writeFailed, runs, snap, cIn, cOut, cSubject, cCall,
          slackWebhookUrl, externalWebhookUrl, sinkCalls, reconn, apiReq, apiRes,
          templates, embedCalls, idsIssued>>

\* the state after new IMAPSyncManager(): no connection, empty watermark map
Init ==
    /\ mainPc = "created"
    /\ isRunning = FALSE
    /\ connState = [a \in Accounts |-> "none"]
    /\ isConnected = [a \in Accounts |-> FALSE]
    /\ syncPc = [a \in Accounts |-> "none"]
    /\ mailbox = [a \in Accounts |-> {}]
    /\ uidNext = [a \in Accounts |-> FirstUID]
    /\ unparsable = [a \in Accounts |-> {}]
    /\ expunged = 0
    /\ lastProcessedUID = [a \in Accounts |-> 0]
    /\ batch = [a \in Accounts |-> {}]
    /\ cycles = EmptyBag
    /\ tasks = EmptyBag
    /\ store = {}
    /\ storeUp = TRUE
    /\ writeFailed = {}
    /\ runs = <<>>
    /\ snap = {}
    /\ cIn = <<>>
    /\ cOut = NoCategory
    /\ cSubject = <<>>
    /\ cCall = "pending"
    /\ slackWebhookUrl = ""
    /\ externalWebhookUrl = ""
    /\ sinkCalls = EmptyBag
    /\ reconn = [a \in Accounts |-> "none"]
    /\ apiReq = NoRequest
    /\ apiRes = NoResponse
    /\ templates = <<>>
    /\ embedCalls = {}
    /\ idsIssued = 0

(***************************************************************************)
(* main() and start()                                                      *)
(***************************************************************************)
\* main calls start(): isRunning is set and elasticsearchService.initialize()
\* is awaited
StartCall ==
    /\ mainPc = "created"
    /\ ~isRunning
    /\ isRunning' = TRUE
    /\ mainPc' = "initES"
    /\ UNCHANGED <<connState, isConnected, syncPc, serverVars, lastProcessedUID,
                   batch, cycles, tasks, store, storeUp, writeFailed, scenarioVars,
                   sinkVars, reconn, facadeVars, replyVars>>

\* initialize() has returned or thrown (the error is logged): connectAndSync
\* creates a connection per account, calls imap.connect() and start awaits
\* Promise.all of the promises
StartConnect ==
    /\ mainPc = "initES"
    /\ connState' = [a \in Accounts |-> "connecting"]
    /\ syncPc' = [a \in Accounts |-> "connect"]
    /\ mainPc' = "awaitAll"
    /\ UNCHANGED <<isRunning, isConnected, serverVars, lastProcessedUID, batch,
                   cycles, tasks, store, storeUp, writeFailed, scenarioVars,
                   sinkVars, reconn, facadeVars, replyVars>>

\* resolve() of connectAndSync(a): Promise.all resolves with the last promise,
\* start returns and main goes on
Resolved(a) ==
    LET sp == [syncPc EXCEPT ![a] = "watching"]
    IN  /\ syncPc' = sp
        /\ mainPc' = IF mainPc = "awaitAll" /\ \A b \in Accounts : sp[b] = "watching"
                     THEN "started" ELSE mainPc

\* reject(error) of connectAndSync(a): Promise.all rejects, start throws and
\* the catch of main calls process.exit(1)
Rejected(a) ==
    /\ syncPc' = [syncPc EXCEPT ![a] = "rejected"]
    /\ mainPc' = IF mainPc = "awaitAll" THEN "exited" ELSE mainPc

\* imap 'ready': isConnected is set and syncRecentEmails opens INBOX
ConnReady(a) ==
    /\ Alive
    /\ connState[a] = "connecting"
    /\ syncPc[a] = "connect"
    /\ connState' = [connState EXCEPT ![a] = "authenticated"]
    /\ isConnected' = [isConnected EXCEPT ![a] = TRUE]
    /\ syncPc' = [syncPc EXCEPT ![a] = "openBox"]
    /\ UNCHANGED <<mainPc, isRunning, serverVars, lastProcessedUID, batch, cycles,
                   tasks, store, storeUp, writeFailed, scenarioVars,
                   sinkVars, reconn, facadeVars, replyVars>>

\* imap 'error' (once): isConnected is cleared and the promise is rejected;
\* the callbacks waiting on the connection are not served
ConnError(a) ==
    /\ Alive
    /\ connState[a] \in {"connecting", "authenticated"}
    /\ connState' = [connState EXCEPT ![a] = "closed"]
    /\ isConnected' = [isConnected EXCEPT ![a] = FALSE]
    /\ IF ConnectPromise(a) = "pending" THEN Rejected(a)
       ELSE UNCHANGED <<syncPc, mainPc>>
    /\ cycles' = Without(cycles, CyclesOf(a))
    /\ UNCHANGED <<isRunning, serverVars, lastProcessedUID, batch, tasks, store,
                   storeUp, writeFailed, scenarioVars,
                   sinkVars, reconn, facadeVars, replyVars>>

\* imap 'end' (once): isConnected is cleared
ConnEnd(a) ==
    /\ Alive
    /\ connState[a] = "authenticated"
    /\ connState' = [connState EXCEPT ![a] = "closed"]
    /\ isConnected' = [isConnected EXCEPT ![a] = FALSE]
    /\ cycles' = Without(cycles, CyclesOf(a))
    /\ UNCHANGED <<mainPc, isRunning, syncPc, serverVars, lastProcessedUID, batch,
                   tasks, store, storeUp, writeFailed, scenarioVars,
                   sinkVars, reconn, facadeVars, replyVars>>

(***************************************************************************)
(* syncRecentEmails and fetchAndProcessEmails                              *)
(***************************************************************************)
\* (variant: one message that fails to parse ends the handlers of the whole batch)
ParsedAllOrNothing(a, uids) ==
    IF uids \cap unparsable[a] = {} THEN uids ELSE {}

\* the messages of a fetch whose handler gets past simpleParser: a parse
\* error is caught and logged in the handler of that message alone
Parsed(a, uids) == uids \ unparsable[a]

\* fetch.on('message') / msg.once('end'): one handler per fetched message;
\* it awaits simpleParser, touching no shared state, and then calls
\* processEmail, which asks the store whether the message exists
Spawn(a, uids, src) ==
    tasks (+) SetToBag({Task(a, u, "exists", NoCategory, src) : u \in Parsed(a, uids)})

\* the openBox callback of syncRecentEmails and the 'end' of its sequence
\* fetch: nothing to do for an empty mailbox; otherwise the uids of the last
\* ten messages are collected, the watermark is set to the highest of them
\* and fetchAndProcessEmails is called
BackfillOpenBox(a) ==
    /\ Alive
    /\ syncPc[a] = "openBox"
    /\ connState[a] = "authenticated"
    /\ LET totalMessages == Cardinality(mailbox[a])
           startSeq == Max({1, totalMessages - BackfillSpan})
           uids == SeqFetch(mailbox[a], startSeq, totalMessages)
       IN  IF totalMessages = 0
           THEN /\ Resolved(a)
                /\ UNCHANGED <<lastProcessedUID, batch>>
           ELSE /\ lastProcessedUID' = [lastProcessedUID EXCEPT ![a] = Max(uids)]
                /\ batch' = [batch EXCEPT ![a] = uids]
                /\ syncPc' = [syncPc EXCEPT ![a] = "fetch"]
                /\ UNCHANGED mainPc
    /\ UNCHANGED <<isRunning, connState, isConnected, serverVars, cycles, tasks,
                   store, storeUp, writeFailed, scenarioVars,
                   sinkVars, reconn, facadeVars, replyVars>>

\* openBox or a fetch of the backfill reports an error: reject(error)
BackfillFail(a) ==
    /\ Alive
    /\ syncPc[a] \in {"openBox", "fetch"}
    /\ connState[a] = "authenticated"
    /\ Rejected(a)
    /\ UNCHANGED <<isRunning, connState, isConnected, serverVars, lastProcessedUID,
                   batch, cycles, tasks, store, storeUp, writeFailed, scenarioVars,
                   sinkVars, reconn, facadeVars, replyVars>>

\* the fetch of fetchAndProcessEmails has delivered its messages and ended:
\* the promise resolves while the handlers are still running, setupIdleMode
\* installs the 'mail' listener and connectAndSync resolves
BackfillFetchEnd(a) ==
    /\ Alive
    /\ syncPc[a] = "fetch"
    /\ connState[a] = "authenticated"
    /\ tasks' = Spawn(a, batch[a] \cap mailbox[a], "backfill")
    /\ Resolved(a)
    /\ UNCHANGED <<isRunning, connState, isConnected, serverVars, lastProcessedUID,
                   batch, cycles, store, storeUp, writeFailed, scenarioVars,
                   sinkVars, reconn, facadeVars, replyVars>>

(***************************************************************************)
(* The mail server and handleNewMail                                       *)
(***************************************************************************)
Delivered == uidNext["A"] + uidNext["B"] - 2 * FirstUID

\* a message arrives in the INBOX of a; with INBOX open and the 'mail'
\* listener installed the event calls handleNewMail, which opens INBOX
Arrival(a, parses) ==
    /\ Alive
    /\ Delivered < MaxMsgs
    /\ mailbox' = [mailbox EXCEPT ![a] = @ \cup {uidNext[a]}]
    /\ unparsable' = [unparsable EXCEPT ![a] = IF parses THEN @ ELSE @ \cup {uidNext[a]}]
    /\ uidNext' = [uidNext EXCEPT ![a] = @ + 1]
    /\ cycles' = IF connState[a] = "authenticated" /\ syncPc[a] = "watching"
                 THEN cycles (+) One([acct |-> a, pc |-> "openBox", from |-> 0])
                 ELSE cycles
    /\ UNCHANGED <<lifecycleVars, expunged, lastProcessedUID, batch, tasks, store,
                   storeUp, writeFailed, scenarioVars,
                   sinkVars, reconn, facadeVars, replyVars>>

\* a message is removed from the INBOX of a (by another client of the mailbox)
Expunge(a, u) ==
    /\ Alive
    /\ expunged < MaxExpunged
    /\ u \in mailbox[a]
    /\ mailbox' = [mailbox EXCEPT ![a] = @ \ {u}]
    /\ expunged' = expunged + 1
    /\ UNCHANGED <<lifecycleVars, uidNext, unparsable, lastProcessedUID, batch,
                   cycles, tasks, store, storeUp, writeFailed, scenarioVars,
                   sinkVars, reconn, facadeVars, replyVars>>

\* the openBox callback of handleNewMail: reads the watermark and searches
\* the uids above it (from the message count on when there is no watermark)
HandleNewMailOpenBox(c) ==
    /\ Alive
    /\ c.pc = "openBox"
    /\ connState[c.acct] = "authenticated"
    /\ LET totalMessages == Cardinality(mailbox[c.acct])
           last == lastProcessedUID[c.acct]
       IN  cycles' = IF totalMessages > 0
                     THEN (cycles (-) One(c)) (+)
                          One([c EXCEPT !.pc = "search",
                                        !.from = IF last > 0 THEN last + 1
                                                 ELSE totalMessages])
                     ELSE cycles (-) One(c)
    /\ UNCHANGED <<lifecycleVars, serverVars, lastProcessedUID, batch, tasks,
                   store, storeUp, writeFailed, scenarioVars,
                   sinkVars, reconn, facadeVars, replyVars>>

\* the search callback of handleNewMail: fetchAndProcessEmails on the results
\* (the promise is dropped), whose fetch delivers the messages
HandleNewMailSearch(c) ==
    /\ Alive
    /\ c.pc = "search"
    /\ connState[c.acct] = "authenticated"
    /\ tasks' = Spawn(c.acct, SearchUidFrom(mailbox[c.acct], c.from), "newmail")
    /\ cycles' = cycles (-) One(c)
    /\ UNCHANGED <<lifecycleVars, serverVars, lastProcessedUID, batch, store,
                   storeUp, writeFailed, scenarioVars,
                   sinkVars, reconn, facadeVars, replyVars>>

\* the search index goes down or comes back
StoreFlip ==
    /\ Alive
    /\ storeUp' = ~storeUp
    /\ UNCHANGED <<lifecycleVars, serverVars, lastProcessedUID, batch, cycles,
                   tasks, store, writeFailed, scenarioVars,
                   sinkVars, reconn, facadeVars, replyVars>>

(***************************************************************************)
(* processEmail, one step per awaited call                                 *)
(***************************************************************************)
Key(t) == <<t.acct, t.uid>>

\* emailExists has answered: an existing message ends the run; for a new one
\* the watermark is raised to its uid and categorizeEmail is called
ExistsStep(t) ==
    /\ Alive
    /\ t.pc = "exists"
    /\ IF EmailExists(t.acct, INBOX, t.uid)
       THEN /\ tasks' = tasks (-) One(t)
            /\ UNCHANGED lastProcessedUID
       ELSE /\ lastProcessedUID' =
                   IF t.uid > lastProcessedUID[t.acct]
                   THEN [lastProcessedUID EXCEPT ![t.acct] = t.uid]
                   ELSE lastProcessedUID
            /\ tasks' = (tasks (-) One(t)) (+) One([t EXCEPT !.pc = "categorize"])
    /\ UNCHANGED <<lifecycleVars, serverVars, batch, cycles, store, storeUp,
                   writeFailed, scenarioVars,
                   sinkVars, reconn, facadeVars, replyVars>>

\* (variant: the error of categorizeEmail leaves processEmail's inner try)
CategorizeErrorEscapes(t) == EmptyBag

\* the inner catch of processEmail: the error is logged and the run goes on
\* to indexEmail with no category
CategorizeErrorCaught(t) == One([t EXCEPT !.pc = "index", !.cat = NoCategory])

\* (variant: every categorized message is notified)
AfterCategorizeAlwaysNotify(category) == "notify"

\* if (category.category === 'INTERESTED') notifyInterestedEmail is awaited,
\* otherwise the run goes on to indexEmail
AfterCategorize(category) == IF category = "INTERESTED" THEN "notify" ELSE "index"

\* categorizeEmail has returned a category or thrown; INTERESTED calls
\* notifyInterestedEmail, everything else goes on to indexEmail
CategorizeStep(t, outcome) ==
    /\ Alive
    /\ t.pc = "categorize"
    /\ LET category == CategorizeEmail(SubjectOf(t.uid), outcome)
       IN  IF category = "throw"
           THEN tasks' = (tasks (-) One(t)) (+) CategorizeErrorCaught(t)
           ELSE tasks' = (tasks (-) One(t)) (+)
                       One([t EXCEPT !.cat = category,
                                     !.pc = AfterCategorize(category)])
    /\ UNCHANGED <<lifecycleVars, serverVars, lastProcessedUID, batch, cycles,
                   store, storeUp, writeFailed, scenarioVars,
                   sinkVars, reconn, facadeVars, replyVars>>

\* sendSlackNotification / triggerWebhook: nothing is done without a url;
\* otherwise axios.post is called, and an error of it is caught and logged
SinkCall(sink, url, t, ok) ==
    IF url = "" THEN EmptyBag
    ELSE One([sink |-> sink, acct |-> t.acct, uid |-> t.uid, ok |-> ok])

\* (variant: the sinks are called one after the other and the first failure
\* ends the notification)
NotifyFailFast(t, slackOk, webhookOk) ==
    IF slackWebhookUrl # "" /\ ~slackOk
    THEN SinkCall("slack", slackWebhookUrl, t, slackOk)
    ELSE SinkCall("slack", slackWebhookUrl, t, slackOk)
            (+) SinkCall("webhook", externalWebhookUrl, t, webhookOk)

\* notifyInterestedEmail: Promise.all of the two sink calls, both started
\* before either has answered
NotifyInterestedEmail(t, slackOk, webhookOk) ==
    SinkCall("slack", slackWebhookUrl, t, slackOk)
        (+) SinkCall("webhook", externalWebhookUrl, t, webhookOk)

\* notifyInterestedEmail has returned: each configured sink has been posted
\* to and has answered or failed; the run goes on to indexEmail
NotifyStep(t, slackOk, webhookOk) ==
    /\ Alive
    /\ t.pc = "notify"
    /\ sinkCalls' = sinkCalls (+) NotifyInterestedEmail(t, slackOk, webhookOk)
    /\ tasks' = (tasks (-) One(t)) (+) One([t EXCEPT !.pc = "index"])
    /\ UNCHANGED <<lifecycleVars, serverVars, lastProcessedUID, batch, cycles,
                   store, storeUp, writeFailed, scenarioVars,
                   slackWebhookUrl, externalWebhookUrl, reconn, facadeVars,
                   replyVars>>

\* indexEmail has written the document, or thrown (the outer catch of
\* processEmail logs the error); the run ends
\* (variant: a failed write ends the other runs of the account as well)
IndexStepAbandonsBatch(t) ==
    /\ Alive
    /\ t.pc = "index"
    /\ IF storeUp
       THEN /\ store' = IndexEmail(store, Document(t.acct, INBOX, t.uid, t.cat))
            /\ UNCHANGED writeFailed
       ELSE /\ writeFailed' = writeFailed \cup {Key(t)}
            /\ UNCHANGED store
    /\ tasks' = IF storeUp THEN tasks (-) One(t) ELSE Without(tasks, TasksOf(t.acct))
    /\ UNCHANGED <<lifecycleVars, serverVars, lastProcessedUID, batch, cycles,
                   storeUp, scenarioVars,
                   sinkVars, reconn, facadeVars, replyVars>>

IndexStep(t) ==
    /\ Alive
    /\ t.pc = "index"
    /\ IF storeUp
       THEN /\ store' = IndexEmail(store, Document(t.acct, INBOX, t.uid, t.cat))
            /\ UNCHANGED writeFailed
       ELSE /\ writeFailed' = writeFailed \cup {Key(t)}
            /\ UNCHANGED store
    /\ tasks' = tasks (-) One(t)
    /\ UNCHANGED <<lifecycleVars, serverVars, lastProcessedUID, batch, cycles,
                   storeUp, scenarioVars,
                   sinkVars, reconn, facadeVars, replyVars>>

(***************************************************************************)
(* Specification of the system                                             *)
(***************************************************************************)
Next ==
    \/ StartCall
    \/ StartConnect
    \/ \E a \in Accounts :
        \/ ConnReady(a)
        \/ ConnError(a)
        \/ ConnEnd(a)
        \/ BackfillOpenBox(a)
        \/ BackfillFail(a)
        \/ BackfillFetchEnd(a)
        \/ \E parses \in BOOLEAN : Arrival(a, parses)
        \/ \E u \in mailbox[a] : Expunge(a, u)
    \/ \E c \in BagToSet(cycles) : HandleNewMailOpenBox(c)
    \/ \E c \in BagToSet(cycles) : HandleNewMailSearch(c)
    \/ \E t \in BagToSet(tasks) : ExistsStep(t)
    \/ \E t \in BagToSet(tasks) :
          \E outcome \in ClassifierOutcomes : CategorizeStep(t, outcome)
    \/ \E t \in BagToSet(tasks) :
          \E slackOk, webhookOk \in BOOLEAN : NotifyStep(t, slackOk, webhookOk)
    \/ \E t \in BagToSet(tasks) : IndexStep(t)
    \/ StoreFlip

Spec == Init /\ [][Next]_vars

(***************************************************************************)
(* Backfill scenario: the service is started on a mailbox that already     *)
(* holds BatchMsgs messages, any of them unparsable, and no mail arrives   *)
(***************************************************************************)
BatchUids == FirstUID..(FirstUID + BatchMsgs - 1)

InitBackfill ==
    /\ mainPc = "created"
    /\ isRunning = FALSE
    /\ connState = [a \in Accounts |-> "none"]
    /\ isConnected = [a \in Accounts |-> FALSE]
    /\ syncPc = [a \in Accounts |-> "none"]
    /\ mailbox = [a \in Accounts |-> IF a = "A" THEN BatchUids ELSE {}]
    /\ uidNext = [a \in Accounts |-> IF a = "A" THEN FirstUID + BatchMsgs ELSE FirstUID]
    /\ \E bad \in SUBSET BatchUids :
           unparsable = [a \in Accounts |-> IF a = "A" THEN bad ELSE {}]
    /\ expunged = 0
    /\ lastProcessedUID = [a \in Accounts |-> 0]
    /\ batch = [a \in Accounts |-> {}]
    /\ cycles = EmptyBag
    /\ tasks = EmptyBag
    /\ store = {}
    /\ storeUp = TRUE
    /\ writeFailed = {}
    /\ runs = <<>>
    /\ snap = {}
    /\ cIn = <<>>
    /\ cOut = NoCategory
    /\ cSubject = <<>>
    /\ cCall = "pending"
    /\ slackWebhookUrl = ""
    /\ externalWebhookUrl = ""
    /\ sinkCalls = EmptyBag
    /\ reconn = [a \in Accounts |-> "none"]
    /\ apiReq = NoRequest
    /\ apiRes = NoResponse
    /\ templates = <<>>
    /\ embedCalls = {}
    /\ idsIssued = 0

NextBackfill ==
    \/ StartCall
    \/ StartConnect
    \/ \E a \in Accounts :
        \/ ConnReady(a)
        \/ BackfillOpenBox(a)
        \/ BackfillFetchEnd(a)
    \/ \E t \in BagToSet(tasks) : ExistsStep(t)
    \/ \E t \in BagToSet(tasks) :
          \E outcome \in ClassifierOutcomes : CategorizeStep(t, outcome)
    \/ \E t \in BagToSet(tasks) :
          \E slackOk, webhookOk \in BOOLEAN : NotifyStep(t, slackOk, webhookOk)
    \/ \E t \in BagToSet(tasks) : IndexStep(t)
    \/ StoreFlip

SpecBackfill == InitBackfill /\ [][NextBackfill]_vars

(***************************************************************************)
(* Sequential scenario: processEmail is run on one message, and run again  *)
(* on the same message after the first run has returned; the store answers *)
(***************************************************************************)
RunUids == FirstUID..(FirstUID + MaxMsgs - 1)

\* the manager is started and every account is watching; the watermark and
\* the store are as earlier runs on other messages can have left them
InitTwice ==
    /\ mainPc = "started"
    /\ isRunning = TRUE
    /\ connState = [a \in Accounts |-> "authenticated"]
    /\ isConnected = [a \in Accounts |-> TRUE]
    /\ syncPc = [a \in Accounts |-> "watching"]
    /\ mailbox = [a \in Accounts |-> RunUids]
    /\ uidNext = [a \in Accounts |-> FirstUID + MaxMsgs]
    /\ unparsable = [a \in Accounts |-> {}]
    /\ expunged = 0
    /\ \E w \in {0} \cup RunUids : lastProcessedUID = [a \in Accounts |-> w]
    /\ batch = [a \in Accounts |-> {}]
    /\ cycles = EmptyBag
    /\ tasks = EmptyBag
    /\ \E a \in Accounts, u \in RunUids, c \in {NoCategory, "SPAM"} :
           store \in {{}, {Document(a, INBOX, u, c)}}
    /\ storeUp = TRUE
    /\ writeFailed = {}
    /\ runs = <<>>
    /\ snap = {}
    /\ cIn = <<>>
    /\ cOut = NoCategory
    /\ cSubject = <<>>
    /\ cCall = "pending"
    /\ slackWebhookUrl = ""
    /\ externalWebhookUrl = ""
    /\ sinkCalls = EmptyBag
    /\ reconn = [a \in Accounts |-> "none"]
    /\ apiReq = NoRequest
    /\ apiRes = NoResponse
    /\ templates = <<>>
    /\ embedCalls = {}
    /\ idsIssued = 0

\* processEmail(email) is called for the message with uid u of account a:
\* emailExists is awaited
RunProcessEmail(a, u) ==
    /\ Alive
    /\ tasks = EmptyBag
    /\ Len(runs) < 2
    /\ runs # <<>> => runs[1] = <<a, u>>
    /\ runs' = Append(runs, <<a, u>>)
    /\ snap' = store
    /\ tasks' = One(Task(a, u, "exists", NoCategory, "direct"))
    /\ UNCHANGED <<lifecycleVars, serverVars, lastProcessedUID, batch, cycles,
                   store, storeUp, writeFailed, cIn, cOut, cSubject, cCall,
                   sinkVars, reconn, facadeVars,
                   replyVars>>

NextTwice ==
    \/ \E a \in Accounts, u \in RunUids : RunProcessEmail(a, u)
    \/ \E t \in BagToSet(tasks) : ExistsStep(t)
    \/ \E t \in BagToSet(tasks) :
          \E outcome \in ClassifierOutcomes : CategorizeStep(t, outcome)
    \/ \E t \in BagToSet(tasks) :
          \E slackOk, webhookOk \in BOOLEAN : NotifyStep(t, slackOk, webhookOk)
    \/ \E t \in BagToSet(tasks) : IndexStep(t)

SpecTwice == InitTwice /\ [][NextTwice]_vars

(***************************************************************************)
(* Notification scenario: the service is watching, the sinks are           *)
(* configured or not, and mail arrives for one account                     *)
(***************************************************************************)
SinkUrls == {"", "https"}

InitNotify ==
    /\ mainPc = "started"
    /\ isRunning = TRUE
    /\ connState = [a \in Accounts |-> "authenticated"]
    /\ isConnected = [a \in Accounts |-> TRUE]
    /\ syncPc = [a \in Accounts |-> "watching"]
    /\ mailbox = [a \in Accounts |-> {}]
    /\ uidNext = [a \in Accounts |-> FirstUID]
    /\ unparsable = [a \in Accounts |-> {}]
    /\ expunged = 0
    /\ lastProcessedUID = [a \in Accounts |-> 0]
    /\ batch = [a \in Accounts |-> {}]
    /\ cycles = EmptyBag
    /\ tasks = EmptyBag
    /\ store = {}
    /\ storeUp = TRUE
    /\ writeFailed = {}
    /\ runs = <<>>
    /\ snap = {}
    /\ cIn = <<>>
    /\ cOut = NoCategory
    /\ cSubject = <<>>
    /\ cCall = "pending"
    /\ slackWebhookUrl \in SinkUrls
    /\ externalWebhookUrl \in SinkUrls
    /\ sinkCalls = EmptyBag
    /\ reconn = [a \in Accounts |-> "none"]
    /\ apiReq = NoRequest
    /\ apiRes = NoResponse
    /\ templates = <<>>
    /\ embedCalls = {}
    /\ idsIssued = 0

NextNotify ==
    \/ Arrival("A", TRUE)
    \/ \E c \in BagToSet(cycles) : HandleNewMailOpenBox(c)
    \/ \E c \in BagToSet(cycles) : HandleNewMailSearch(c)
    \/ \E t \in BagToSet(tasks) : ExistsStep(t)
    \/ \E t \in BagToSet(tasks) :
          \E outcome \in ClassifierOutcomes : CategorizeStep(t, outcome)
    \/ \E t \in BagToSet(tasks) :
          \E slackOk, webhookOk \in BOOLEAN : NotifyStep(t, slackOk, webhookOk)
    \/ \E t \in BagToSet(tasks) : IndexStep(t)
    \/ StoreFlip

SpecNotify == InitNotify /\ [][NextNotify]_vars

(***************************************************************************)
(* Classification scenario: one classifier response is mapped to a label   *)
(***************************************************************************)
MaxFrags == 2       \* pieces a response text is made of

\* pieces of a classifier response: empty, white space, non-ASCII, the labels
\* in upper case, in lower case, cut short and prefixed
Fragments ==
    { <<>>, <<" ">>, <<"\n">>, <<"eacute">>, <<"x">>, <<"n","o","t","_">>,
      <<"N","O","T","_">>, <<"i","n","t","e","r","e","s","t","e","d">>,
      <<"S","p","a","m">>, <<"S","P","A">> }
    \cup {LabelText[l] : l \in CategoryLabel}

RECURSIVE Texts(_)
Texts(n) ==
    IF n = 0 THEN {<<>>}
    ELSE LET shorter == Texts(n - 1)
         IN  shorter \cup {s \o f : s \in shorter, f \in Fragments}

ResponseTexts == Texts(MaxFrags)

InitClassify ==
    /\ mainPc = "started"
    /\ isRunning = TRUE
    /\ connState = [a \in Accounts |-> "authenticated"]
    /\ isConnected = [a \in Accounts |-> TRUE]
    /\ syncPc = [a \in Accounts |-> "watching"]
    /\ mailbox = [a \in Accounts |-> {}]
    /\ uidNext = [a \in Accounts |-> FirstUID]
    /\ unparsable = [a \in Accounts |-> {}]
    /\ expunged = 0
    /\ lastProcessedUID = [a \in Accounts |-> 0]
    /\ batch = [a \in Accounts |-> {}]
    /\ cycles = EmptyBag
    /\ tasks = EmptyBag
    /\ store = {}
    /\ storeUp = TRUE
    /\ writeFailed = {}
    /\ runs = <<>>
    /\ snap = {}
    /\ cIn \in ResponseTexts
    /\ cOut = "pending"
    /\ cSubject = <<>>
    /\ cCall = "pending"
    /\ slackWebhookUrl = ""
    /\ externalWebhookUrl = ""
    /\ sinkCalls = EmptyBag
    /\ reconn = [a \in Accounts |-> "none"]
    /\ apiReq = NoRequest
    /\ apiRes = NoResponse
    /\ templates = <<>>
    /\ embedCalls = {}
    /\ idsIssued = 0

\* generateContent has answered response.text = cIn: the try block of
\* classifyEmail maps it to a label
ClassifyText ==
    /\ cOut = "pending"
    /\ cOut' = MapResponse(cIn)
    /\ UNCHANGED <<lifecycleVars, serverVars, lastProcessedUID, batch, cycles,
                   tasks, store, storeUp, writeFailed, runs, snap, cIn,
                   cSubject, cCall, sinkVars, reconn, facadeVars,
                   replyVars>>

\* the same answer in the copy of the service that validates the response
\* with isValidCategory
ClassifyTextExact ==
    /\ cOut = "pending"
    /\ cOut' = MapResponseExact(cIn)
    /\ UNCHANGED <<lifecycleVars, serverVars, lastProcessedUID, batch, cycles,
                   tasks, store, storeUp, writeFailed, runs, snap, cIn,
                   cSubject, cCall, sinkVars, reconn, facadeVars,
                   replyVars>>

NextClassify ==
    \/ ClassifyText
    \/ ClassifyTextExact

SpecClassify == InitClassify /\ [][NextClassify]_vars

(***************************************************************************)
(* Categorization scenario: categorizeEmail is called for one message, and *)
(* the classifier answers a text or fails                                  *)
(***************************************************************************)
MaxSubjectFrags == 2    \* pieces a subject is made of

\* pieces of a subject: the keywords of the rules in several spellings, near
\* misses and other text
SubjectFragments ==
    { <<"H","e","l","l","o">>, <<"R","e",":"," ">>, <<"eacute">>,
      <<"O","u","t"," ","o","f"," ","O","f","f","i","c","e">>,
      <<"O","U","T"," ","O","F"," ","O","F","F","I","C","E">>,
      <<"o","u","t"," ","o","f"," "," ","o","f","f","i","c","e">>,
      <<"M","e","e","t","i","n","g"," ","c","o","n","f","i","r","m","e","d",
        " ","f","o","r"," ","T","u","e","s","d","a","y">>,
      <<"m","e","e","t","i","n","g"," ","c","o","n","f","i","r","m">>,
      <<"M","a","k","e"," ","M","o","n","e","y"," ","F","a","s","t">>,
      <<"m","a","k","e"," ","m","o","n","e","y">> }

RECURSIVE SubjectTexts(_)
SubjectTexts(n) ==
    IF n = 0 THEN {<<>>}
    ELSE LET shorter == SubjectTexts(n - 1)
         IN  shorter \cup {s \o f : s \in shorter, f \in SubjectFragments}

Subjects == SubjectTexts(MaxSubjectFrags)

\* what the classifier answers when it answers
CategorizeTexts ==
    { <<>>, <<"I","N","T","E","R","E","S","T","E","D">>, <<"S","p","a","m","\n">> }

InitCategorize ==
    /\ mainPc = "started"
    /\ isRunning = TRUE
    /\ connState = [a \in Accounts |-> "authenticated"]
    /\ isConnected = [a \in Accounts |-> TRUE]
    /\ syncPc = [a \in Accounts |-> "watching"]
    /\ mailbox = [a \in Accounts |-> {}]
    /\ uidNext = [a \in Accounts |-> FirstUID]
    /\ unparsable = [a \in Accounts |-> {}]
    /\ expunged = 0
    /\ lastProcessedUID = [a \in Accounts |-> 0]
    /\ batch = [a \in Accounts |-> {}]
    /\ cycles = EmptyBag
    /\ tasks = EmptyBag
    /\ store = {}
    /\ storeUp = TRUE
    /\ writeFailed = {}
    /\ runs = <<>>
    /\ snap = {}
    /\ cIn \in CategorizeTexts
    /\ cOut = "pending"
    /\ cSubject \in Subjects
    /\ cCall = "pending"
    /\ slackWebhookUrl = ""
    /\ externalWebhookUrl = ""
    /\ sinkCalls = EmptyBag
    /\ reconn = [a \in Accounts |-> "none"]
    /\ apiReq = NoRequest
    /\ apiRes = NoResponse
    /\ templates = <<>>
    /\ embedCalls = {}
    /\ idsIssued = 0

\* categorizeEmail(email) for a message with subject cSubject: generateContent
\* answers response.text = cIn
CategorizeAnswered ==
    /\ cCall = "pending"
    /\ cCall' = "text"
    /\ cOut' = CategorizeEmail(cSubject, <<"text", cIn>>)
    /\ UNCHANGED <<lifecycleVars, serverVars, lastProcessedUID, batch, cycles,
                   tasks, store, storeUp, writeFailed, runs, snap, cIn,
                   cSubject, sinkVars, reconn, facadeVars,
                   replyVars>>

\* categorizeEmail(email) for a message with subject cSubject: generateContent
\* fails (timeout, quota, transport error)
CategorizeFailed ==
    /\ cCall = "pending"
    /\ cCall' = "error"
    /\ cOut' = CategorizeEmail(cSubject, <<"error">>)
    /\ UNCHANGED <<lifecycleVars, serverVars, lastProcessedUID, batch, cycles,
                   tasks, store, storeUp, writeFailed, runs, snap, cIn,
                   cSubject, sinkVars, reconn, facadeVars,
                   replyVars>>

NextCategorize ==
    \/ CategorizeAnswered
    \/ CategorizeFailed

SpecCategorize == InitCategorize /\ [][NextCategorize]_vars

(***************************************************************************)
(* API server scenario: the process starts the manager on empty mailboxes  *)
(* and then serves GET /api/folders; connections fail or end at any time   *)
(* and no mail arrives                                                     *)
(***************************************************************************)
ErrorKinds == {"auth", "other"}

\* getFolders reaches an account that is not marked connected:
\* connectToAccount creates a connection and calls imap.connect() (one
\* attempt per account is followed at a time)
GetFoldersConnect(a) ==
    /\ Alive
    /\ mainPc = "started"
    /\ ~isConnected[a]
    /\ reconn[a] # "connecting"
    /\ reconn' = [reconn EXCEPT ![a] = "connecting"]
    /\ UNCHANGED <<lifecycleVars, serverVars, lastProcessedUID, batch, cycles,
                   tasks, store, storeUp, writeFailed, scenarioVars, sinkVars,
                   facadeVars, replyVars>>

\* 'ready' on the connection of connectToAccount: it becomes
\* account.connection and the account is marked connected; INBOX is not
\* opened and no 'mail' listener is installed on it
ReconnReady(a) ==
    /\ Alive
    /\ reconn[a] = "connecting"
    /\ reconn' = [reconn EXCEPT ![a] = "authenticated"]
    /\ isConnected' = [isConnected EXCEPT ![a] = TRUE]
    /\ UNCHANGED <<mainPc, isRunning, connState, syncPc, serverVars,
                   lastProcessedUID, batch, cycles, tasks, store, storeUp,
                   writeFailed, scenarioVars, sinkVars, facadeVars, replyVars>>

\* 'error' (once) on the connection of connectToAccount, the rejection of the
\* credentials or any other error: the account is marked not connected and
\* getFolders throws
ReconnError(a, kind) ==
    /\ Alive
    /\ reconn[a] \in {"connecting", "authenticated"}
    /\ reconn[a] = "authenticated" => kind = "other"
    /\ reconn' = [reconn EXCEPT ![a] = IF kind = "auth" THEN "authFailed" ELSE "failed"]
    /\ isConnected' = [isConnected EXCEPT ![a] = FALSE]
    /\ UNCHANGED <<mainPc, isRunning, connState, syncPc, serverVars,
                   lastProcessedUID, batch, cycles, tasks, store, storeUp,
                   writeFailed, scenarioVars, sinkVars, facadeVars, replyVars>>

\* the watched connection of a, made by connectAndSync, is authenticated,
\* has INBOX open and carries the 'mail' listener
Watching(a) ==
    connState[a] = "authenticated" /\ syncPc[a] = "watching"

NextApi ==
    \/ StartCall
    \/ StartConnect
    \/ \E a \in Accounts :
        \/ ConnReady(a)
        \/ ConnError(a)
        \/ ConnEnd(a)
        \/ BackfillOpenBox(a)
        \/ BackfillFail(a)
        \/ GetFoldersConnect(a)
        \/ ReconnReady(a)
        \/ \E kind \in ErrorKinds : ReconnError(a, kind)
    \/ StoreFlip

SpecApi == Init /\ [][NextApi]_vars

\* the event loop runs a handler whenever one is due
SpecApiLive == SpecApi /\ WF_vars(NextApi)

(***************************************************************************)
(* Shutdown: the SIGINT handler awaits stop() and calls process.exit(0)    *)
(***************************************************************************)
\* disconnectAccount: the connection of a connected account is ended and its
\* flag cleared, any other account is left as it is
DisconnectAccount(a) ==
    IF connState[a] # "none" /\ isConnected[a]
    THEN [connection |-> "closed", isConnected |-> FALSE]
    ELSE [connection |-> connState[a], isConnected |-> isConnected[a]]

\* stop(): nothing when the manager is not running, otherwise the flag is
\* cleared and every account disconnected
Stop ==
    IF ~isRunning
    THEN UNCHANGED <<isRunning, connState, isConnected>>
    ELSE /\ isRunning' = FALSE
         /\ connState' = [a \in Accounts |-> DisconnectAccount(a).connection]
         /\ isConnected' = [a \in Accounts |-> DisconnectAccount(a).isConnected]

\* the handler is registered once start() has returned; stop() has no await
\* that waits for I/O, so process.exit(0) follows in the same turn
Sigint ==
    /\ mainPc = "started"
    /\ Stop
    /\ mainPc' = "stopped"
    /\ UNCHANGED <<syncPc, serverVars, lastProcessedUID, batch, cycles, tasks,
                   store, storeUp, writeFailed, scenarioVars, sinkVars, reconn,
                   facadeVars, replyVars>>

NextShutdown ==
    \/ NextBackfill
    \/ Sigint

SpecShutdown == InitBackfill /\ [][NextShutdown]_vars /\ WF_vars(NextShutdown)

(***************************************************************************)
(* The document id of emailExists and indexEmail, as a function of the     *)
(* account name, the folder name and the uid                               *)
(***************************************************************************)
\* the manager has been constructed and nothing has been called
Constructed ==
    /\ mainPc = "created"
    /\ isRunning = FALSE
    /\ connState = [a \in Accounts |-> "none"]
    /\ isConnected = [a \in Accounts |-> FALSE]
    /\ syncPc = [a \in Accounts |-> "none"]
    /\ mailbox = [a \in Accounts |-> {}]
    /\ uidNext = [a \in Accounts |-> FirstUID]
    /\ unparsable = [a \in Accounts |-> {}]
    /\ expunged = 0
    /\ lastProcessedUID = [a \in Accounts |-> 0]
    /\ batch = [a \in Accounts |-> {}]
    /\ cycles = EmptyBag
    /\ tasks = EmptyBag
    /\ writeFailed = {}
    /\ runs = <<>>
    /\ snap = {}
    /\ cIn = <<>>
    /\ cOut = NoCategory
    /\ cSubject = <<>>
    /\ cCall = "pending"
    /\ slackWebhookUrl = ""
    /\ externalWebhookUrl = ""
    /\ sinkCalls = EmptyBag
    /\ reconn = [a \in Accounts |-> "none"]

\* values of IMAPn_NAME
KeyAccountNames == {<<"W","o","r","k">>, <<"W","o","r","k","-","S","e","n","t">>}

\* names of mailbox folders
KeyFolders ==
    {INBOX, <<"I","t","e","m","s">>, <<"S","e","n","t","-","I","t","e","m","s">>}

MaxKeyUid == 2

IdentityKeys ==
    [accountName : KeyAccountNames, folder : KeyFolders, uid : 1..MaxKeyUid]

InitDocumentId ==
    /\ Constructed
    /\ store = {}
    /\ storeUp = TRUE
    /\ \E k1, k2 \in IdentityKeys :
           apiReq = [op |-> "documentId", keys |-> <<k1, k2>>]
    /\ apiRes = NoResponse
    /\ templates = <<>>
    /\ embedCalls = {}
    /\ idsIssued = 0

\* the value a call returns, and the value it throws
Return(v) == [completion |-> "return", value |-> v]

Throw(e) == [completion |-> "throw", value |-> e]

\* the id that emailExists and indexEmail compute for each of the two messages
DocumentIds ==
    /\ apiReq.op = "documentId"
    /\ apiRes = NoResponse
    /\ templates = <<>>
    /\ embedCalls = {}
    /\ idsIssued = 0
    /\ apiRes' = Return(<<DocumentId(apiReq.keys[1].accountName,
                                      apiReq.keys[1].folder, apiReq.keys[1].uid),
                           DocumentId(apiReq.keys[2].accountName,
                                      apiReq.keys[2].folder, apiReq.keys[2].uid)>>)
    /\ UNCHANGED <<lifecycleVars, serverVars, lastProcessedUID, batch, cycles,
                   tasks, store, storeUp, writeFailed, scenarioVars, sinkVars,
                   reconn, apiReq, replyVars>>

NextDocumentId == DocumentIds

SpecDocumentId == InitDocumentId /\ [][NextDocumentId]_vars

(***************************************************************************)
(* The query facade: EmailSearchAPI over IMAPSyncManager over the search   *)
(* index                                                                   *)
(***************************************************************************)
\* the error with which a call of the Elasticsearch client rejects
StoreError == [isError |-> TRUE, message |-> "No Living connections"]

\* error instanceof Error ? error.message : 'Unknown error occurred'
ErrorMessage(e) == IF e.isError THEN e.message ELSE "Unknown error occurred"

\* the documents a search index of the model may hold
FacadeDocs ==
    {Document("A", INBOX, FirstUID, "INTERESTED"),
     Document("A", INBOX, FirstUID + 1, "SPAM"),
     Document("B", INBOX, FirstUID, "NOT_INTERESTED")}

\* searchParams of EmailSearchAPI.searchEmails: "" and <<>> stand for a
\* parameter that is not given, <<S>> for the array of categories S; the
\* requests ask for the first page, which holds every match
SearchParams ==
    [account : {"", "A", "B"},
     folder : {<<>>, INBOX},
     categories : {<<>>, <<{}>>, <<{"INTERESTED"}>>, <<{"SPAM", "NOT_INTERESTED"}>>}]

FacadeRequests ==
    {[op |-> "searchEmails", params |-> p] : p \in SearchParams}
       \cup {[op |-> "getStats"], [op |-> "getHealth"]}

\* the EmailSearchQuery built from the parameters that are given
BuildQuery(p) ==
    [accountName |-> p.account, folder |-> p.folder, categories |-> p.categories]

\* searchBody.query.bool.filter: one term per field of the query that
\* ElasticsearchService.searchEmails reads; with no filter the body is
\* match_all
SearchFilters(query) ==
    (IF query.accountName # ""
     THEN <<[field |-> "accountName", value |-> query.accountName]>> ELSE <<>>)
    \o (IF query.folder # <<>>
        THEN <<[field |-> "folder", value |-> query.folder]>> ELSE <<>>)

\* a document satisfies every term of the filter
Matches(d, filters) ==
    \A i \in 1..Len(filters) :
        IF filters[i].field = "accountName" THEN d.accountName = filters[i].value
        ELSE d.folder = filters[i].value

\* client.search
ClientSearch(filters) ==
    IF storeUp THEN Return({d \in store : Matches(d, filters)})
    ELSE Throw(StoreError)

\* ElasticsearchService.searchEmails: the error of the client is logged and
\* thrown again
EsSearchEmails(query) ==
    LET r == ClientSearch(SearchFilters(query))
    IN  IF r.completion = "throw" THEN Throw(r.value)
        ELSE Return([total |-> Cardinality(r.value), hits |-> r.value])

\* IMAPSyncManager.searchEmails: logs and throws again
ManagerSearchEmails(query) ==
    LET r == EsSearchEmails(query)
    IN  IF r.completion = "throw" THEN Throw(r.value) ELSE r

\* (variant: the catch block throws the error again)
ApiCatchRethrow(e) == Throw(e)

\* the catch block of EmailSearchAPI.searchEmails and getStats
ApiCatch(e) == Return([success |-> FALSE, error |-> ErrorMessage(e)])

\* EmailSearchAPI.searchEmails
ApiSearchEmails(p) ==
    LET r == ManagerSearchEmails(BuildQuery(p))
    IN  IF r.completion = "throw" THEN ApiCatch(r.value)
        ELSE Return([success |-> TRUE, query |-> p, total |-> r.value.total,
                     results |-> r.value.hits])

\* getAccountStatus
AccountStatus == [a \in Accounts |-> isConnected[a]]

\* EmailSearchAPI.getStats over getEmailStats, a single client.search
ApiGetStats ==
    IF ~storeUp THEN ApiCatch(StoreError)
    ELSE Return([success |-> TRUE,
                 emailStats |-> [totalEmails |-> Cardinality(store)],
                 accountStatus |-> AccountStatus,
                 connectedAccounts |-> Cardinality({a \in Accounts : isConnected[a]}),
                 totalAccounts |-> Cardinality(Accounts)])

\* the catch block of EmailSearchAPI.getHealth
ApiHealthCatch(e) ==
    Return([success |-> FALSE, error |-> ErrorMessage(e), timestamp |-> "now"])

InitFacade ==
    /\ Constructed
    /\ store \in SUBSET FacadeDocs
    /\ storeUp \in BOOLEAN
    /\ apiReq = NoRequest
    /\ apiRes = NoResponse
    /\ templates = <<>>
    /\ embedCalls = {}
    /\ idsIssued = 0

\* a caller invokes an operation of the facade; the operation awaits the store
FacadeCall(req) ==
    /\ apiRes.completion \notin {"pending", "pendingIndexStats"}
    /\ apiReq' = req
    /\ apiRes' = [completion |-> "pending"]
    /\ UNCHANGED <<lifecycleVars, serverVars, lastProcessedUID, batch, cycles,
                   tasks, store, storeUp, writeFailed, scenarioVars, sinkVars,
                   reconn, replyVars>>

\* client.search of searchEmails settles
SearchAnswer ==
    /\ apiReq.op = "searchEmails"
    /\ apiRes.completion = "pending"
    /\ apiRes' = ApiSearchEmails(apiReq.params)
    /\ UNCHANGED <<lifecycleVars, serverVars, lastProcessedUID, batch, cycles,
                   tasks, store, storeUp, writeFailed, scenarioVars, sinkVars,
                   reconn, apiReq, replyVars>>

\* client.search of getEmailStats settles
StatsAnswer ==
    /\ apiReq.op = "getStats"
    /\ apiRes.completion = "pending"
    /\ apiRes' = ApiGetStats
    /\ UNCHANGED <<lifecycleVars, serverVars, lastProcessedUID, batch, cycles,
                   tasks, store, storeUp, writeFailed, scenarioVars, sinkVars,
                   reconn, apiReq, replyVars>>

\* client.cluster.health of getHealth settles
HealthClusterAnswer ==
    /\ apiReq.op = "getHealth"
    /\ apiRes.completion = "pending"
    /\ apiRes' = IF storeUp THEN [completion |-> "pendingIndexStats"]
                 ELSE ApiHealthCatch(StoreError)
    /\ UNCHANGED <<lifecycleVars, serverVars, lastProcessedUID, batch, cycles,
                   tasks, store, storeUp, writeFailed, scenarioVars, sinkVars,
                   reconn, apiReq, replyVars>>

\* client.indices.stats of getHealth settles
HealthIndexAnswer ==
    /\ apiReq.op = "getHealth"
    /\ apiRes.completion = "pendingIndexStats"
    /\ apiRes' = IF storeUp
                 THEN Return([success |-> TRUE, elasticsearch |-> "health",
                              accounts |-> AccountStatus, timestamp |-> "now"])
                 ELSE ApiHealthCatch(StoreError)
    /\ UNCHANGED <<lifecycleVars, serverVars, lastProcessedUID, batch, cycles,
                   tasks, store, storeUp, writeFailed, scenarioVars, sinkVars,
                   reconn, apiReq, replyVars>>

NextFacade ==
    \/ \E req \in FacadeRequests : FacadeCall(req)
    \/ SearchAnswer
    \/ StatsAnswer
    \/ HealthClusterAnswer
    \/ HealthIndexAnswer
    \/ StoreFlip

SpecFacade == InitFacade /\ [][NextFacade]_vars

(***************************************************************************)
(* The backfill on mailboxes of every size up to MaxBox                    *)
(***************************************************************************)
MaxBox == 12

\* the mailbox of n messages whose uids run from FirstUID with one uid left
\* out, so that sequence numbers and uids differ
Box(n, hole) == (FirstUID..(FirstUID + n)) \ {FirstUID + hole}

\* account A has a mailbox of up to MaxBox messages, none of which
\* simpleParser accepts; account B has an empty one
InitRange ==
    /\ mainPc = "created"
    /\ isRunning = FALSE
    /\ connState = [a \in Accounts |-> "none"]
    /\ isConnected = [a \in Accounts |-> FALSE]
    /\ syncPc = [a \in Accounts |-> "none"]
    /\ \E n \in 0..MaxBox : \E hole \in 0..n :
          /\ mailbox = [a \in Accounts |-> IF a = "A" THEN Box(n, hole) ELSE {}]
          /\ uidNext = [a \in Accounts |-> IF a = "A" THEN FirstUID + n + 1 ELSE FirstUID]
          /\ unparsable = [a \in Accounts |-> IF a = "A" THEN Box(n, hole) ELSE {}]
    /\ expunged = 0
    /\ lastProcessedUID = [a \in Accounts |-> 0]
    /\ batch = [a \in Accounts |-> {}]
    /\ cycles = EmptyBag
    /\ tasks = EmptyBag
    /\ store = {}
    /\ storeUp = TRUE
    /\ writeFailed = {}
    /\ runs = <<>>
    /\ snap = {}
    /\ cIn = <<>>
    /\ cOut = NoCategory
    /\ cSubject = <<>>
    /\ cCall = "pending"
    /\ slackWebhookUrl = ""
    /\ externalWebhookUrl = ""
    /\ sinkCalls = EmptyBag
    /\ reconn = [a \in Accounts |-> "none"]
    /\ apiReq = NoRequest
    /\ apiRes = NoResponse
    /\ templates = <<>>
    /\ embedCalls = {}
    /\ idsIssued = 0

NextRange ==
    \/ StartCall
    \/ StartConnect
    \/ \E a \in Accounts :
        \/ ConnReady(a)
        \/ BackfillOpenBox(a)
        \/ BackfillFetchEnd(a)

SpecRange == InitRange /\ [][NextRange]_vars

(***************************************************************************)
(* loadAccountsFromEnv: the accounts made from process.env                 *)
(***************************************************************************)
\* a variable of process.env is <<>> when it is not set and <<v>> when it is
\* set to the string v
Unset == <<>>

\* (variant: a value that is set, the empty string included)
TruthyWhenSet(v) == v # Unset

\* a value that is set and not the empty string
Truthy(v) == v # Unset /\ v[1] # <<>>

HOST == <<"H","O","S","T">>
PORT == <<"P","O","R","T">>
USER == <<"U","S","E","R">>
PASSWORD == <<"P","A","S","S","W","O","R","D">>
TLS == <<"T","L","S">>
NAME == <<"N","A","M","E">>

\* `IMAP${number}_${field}` for the digits of a number
EnvKey(digits, field) == <<"I","M","A","P">> \o digits \o <<"_">> \o field

IsDigit(c) == \E i \in 1..10 : DigitChar[i] = c

DigitValue(c) == (CHOOSE i \in 1..10 : DigitChar[i] = c) - 1

\* parseInt of a string of decimal digits
RECURSIVE ParseInt(_)
ParseInt(ds) ==
    IF ds = <<>> THEN 0
    ELSE 10 * ParseInt(SubSeq(ds, 1, Len(ds) - 1)) + DigitValue(ds[Len(ds)])

\* the length of the run of digits of key that starts at position i
RECURSIVE DigitRun(_, _)
DigitRun(key, i) ==
    IF i <= Len(key) /\ IsDigit(key[i]) THEN 1 + DigitRun(key, i + 1) ELSE 0

\* key.match(/^IMAP(\d+)_/): whether the key matches
MatchesAccountKey(key) ==
    /\ Len(key) >= 6
    /\ SubSeq(key, 1, 4) = <<"I","M","A","P">>
    /\ DigitRun(key, 5) >= 1
    /\ 5 + DigitRun(key, 5) <= Len(key)
    /\ key[5 + DigitRun(key, 5)] = "_"

\* parseInt(match[1])
AccountNumberOf(key) == ParseInt(SubSeq(key, 5, 4 + DigitRun(key, 5)))

\* Array.from(set).sort((a, b) => a - b)
RECURSIVE SortAscending(_)
SortAscending(S) ==
    IF S = {} THEN <<>> ELSE <<Min(S)>> \o SortAscending(S \ {Min(S)})

\* getAvailableIMAPAccountNumbers: the numbers of the variables that are set
\* and whose name matches, in ascending order
GetAvailableIMAPAccountNumbers(env) ==
    SortAscending({AccountNumberOf(k) :
                     k \in {key \in DOMAIN env : env[key] # Unset /\ MatchesAccountKey(key)}})

\* process.env[key]
Getenv(env, key) == IF key \in DOMAIN env THEN env[key] ELSE Unset

\* the configuration pushed for an account number
AccountConfig(env, n) ==
    [host |-> Getenv(env, EnvKey(Digits(n), HOST))[1],
     port |-> IF Truthy(Getenv(env, EnvKey(Digits(n), PORT)))
              THEN ParseInt(Getenv(env, EnvKey(Digits(n), PORT))[1]) ELSE 993,
     user |-> Getenv(env, EnvKey(Digits(n), USER))[1],
     password |-> Getenv(env, EnvKey(Digits(n), PASSWORD))[1],
     tls |-> Getenv(env, EnvKey(Digits(n), TLS)) = <<<<"t","r","u","e">>>>,
     accountName |-> IF Truthy(Getenv(env, EnvKey(Digits(n), NAME)))
                     THEN Getenv(env, EnvKey(Digits(n), NAME))[1]
                     ELSE <<"A","c","c","o","u","n","t">> \o Digits(n)]

\* the loop over the account numbers: a number whose host, user or password
\* is missing is logged and left out
RECURSIVE AccountConfigs(_, _)
AccountConfigs(env, numbers) ==
    IF numbers = <<>> THEN <<>>
    ELSE (IF /\ Truthy(Getenv(env, EnvKey(Digits(Head(numbers)), HOST)))
             /\ Truthy(Getenv(env, EnvKey(Digits(Head(numbers)), USER)))
             /\ Truthy(Getenv(env, EnvKey(Digits(Head(numbers)), PASSWORD)))
          THEN <<AccountConfig(env, Head(numbers))>> ELSE <<>>)
         \o AccountConfigs(env, Tail(numbers))

\* loadAccountsFromEnv: this.accounts
LoadAccountsFromEnv(env) ==
    LET configs == AccountConfigs(env, GetAvailableIMAPAccountNumbers(env))
    IN  [i \in 1..Len(configs) |->
            [config |-> configs[i], connection |-> "null", isConnected |-> FALSE]]

\* the digits with which the variables of the environments are numbered
NumberOne == <<"1">>
NumberTwo == <<"2">>
NumberZeroTwo == <<"0","2">>

\* the environments of the model: account 1 with every combination of a
\* missing, empty or given host, user, password and TLS setting, account 2
\* likewise with an optional name, and a variable numbered 02
Environments ==
    {[k \in {EnvKey(NumberOne, HOST), EnvKey(NumberOne, USER), EnvKey(NumberOne, PASSWORD),
             EnvKey(NumberOne, TLS), EnvKey(NumberTwo, HOST), EnvKey(NumberTwo, USER),
             EnvKey(NumberTwo, PASSWORD), EnvKey(NumberTwo, NAME), EnvKey(NumberZeroTwo, HOST)} |->
        CASE k = EnvKey(NumberOne, HOST) -> h1
          [] k = EnvKey(NumberOne, USER) -> u1
          [] k = EnvKey(NumberOne, PASSWORD) -> p1
          [] k = EnvKey(NumberOne, TLS) -> t1
          [] k = EnvKey(NumberTwo, HOST) -> h2
          [] k = EnvKey(NumberTwo, USER) -> u2
          [] k = EnvKey(NumberTwo, PASSWORD) -> <<<<"p","2">>>>
          [] k = EnvKey(NumberTwo, NAME) -> n2
          [] OTHER -> h02] :
       h1 \in {Unset, <<<<>>>>, <<<<"h","1">>>>},
       u1 \in {Unset, <<<<"u","1">>>>},
       p1 \in {Unset, <<<<"p","1">>>>},
       t1 \in {Unset, <<<<"t","r","u","e">>>>, <<<<"f","a","l","s","e">>>>},
       h2 \in {Unset, <<<<"h","2">>>>},
       u2 \in {Unset, <<<<>>>>, <<<<"u","2">>>>},
       n2 \in {Unset, <<<<"W","o","r","k">>>>},
       h02 \in {Unset, <<<<"h","0","2">>>>}}

InitLoad ==
    /\ Constructed
    /\ store = {}
    /\ storeUp = TRUE
    /\ \E env \in Environments : apiReq = [op |-> "loadAccountsFromEnv", env |-> env]
    /\ apiRes = NoResponse
    /\ templates = <<>>
    /\ embedCalls = {}
    /\ idsIssued = 0

\* the constructor calls loadAccountsFromEnv
LoadAccounts ==
    /\ apiReq.op = "loadAccountsFromEnv"
    /\ apiRes = NoResponse
    /\ templates = <<>>
    /\ embedCalls = {}
    /\ idsIssued = 0
    /\ apiRes' = Return(LoadAccountsFromEnv(apiReq.env))
    /\ UNCHANGED <<lifecycleVars, serverVars, lastProcessedUID, batch, cycles,
                   tasks, store, storeUp, writeFailed, scenarioVars, sinkVars,
                   reconn, apiReq, replyVars>>

NextLoad == LoadAccounts

SpecLoad == InitLoad /\ [][NextLoad]_vars

(***************************************************************************)
(* A start on two mailboxes: two messages for account A, one for account B *)
(***************************************************************************)
InitContain ==
    /\ mainPc = "created"
    /\ isRunning = FALSE
    /\ connState = [a \in Accounts |-> "none"]
    /\ isConnected = [a \in Accounts |-> FALSE]
    /\ syncPc = [a \in Accounts |-> "none"]
    /\ mailbox = [a \in Accounts |-> IF a = "A" THEN {FirstUID, FirstUID + 1} ELSE {FirstUID}]
    /\ uidNext = [a \in Accounts |-> IF a = "A" THEN FirstUID + 2 ELSE FirstUID + 1]
    /\ unparsable = [a \in Accounts |-> {}]
    /\ expunged = 0
    /\ lastProcessedUID = [a \in Accounts |-> 0]
    /\ batch = [a \in Accounts |-> {}]
    /\ cycles = EmptyBag
    /\ tasks = EmptyBag
    /\ store = {}
    /\ storeUp = TRUE
    /\ writeFailed = {}
    /\ runs = <<>>
    /\ snap = {}
    /\ cIn = <<>>
    /\ cOut = NoCategory
    /\ cSubject = <<>>
    /\ cCall = "pending"
    /\ slackWebhookUrl = ""
    /\ externalWebhookUrl = ""
    /\ sinkCalls = EmptyBag
    /\ reconn = [a \in Accounts |-> "none"]
    /\ apiReq = NoRequest
    /\ apiRes = NoResponse
    /\ templates = <<>>
    /\ embedCalls = {}
    /\ idsIssued = 0

SpecContain == InitContain /\ [][NextBackfill]_vars

(***************************************************************************)
(* The watching service while the search index does not answer             *)
(***************************************************************************)
InitStoreDown ==
    /\ mainPc = "started"
    /\ isRunning = TRUE
    /\ connState = [a \in Accounts |-> "authenticated"]
    /\ isConnected = [a \in Accounts |-> TRUE]
    /\ syncPc = [a \in Accounts |-> "watching"]
    /\ mailbox = [a \in Accounts |-> {}]
    /\ uidNext = [a \in Accounts |-> FirstUID]
    /\ unparsable = [a \in Accounts |-> {}]
    /\ expunged = 0
    /\ lastProcessedUID = [a \in Accounts |-> 0]
    /\ batch = [a \in Accounts |-> {}]
    /\ cycles = EmptyBag
    /\ tasks = EmptyBag
    /\ store = {}
    /\ storeUp = FALSE
    /\ writeFailed = {}
    /\ runs = <<>>
    /\ snap = {}
    /\ cIn = <<>>
    /\ cOut = NoCategory
    /\ cSubject = <<>>
    /\ cCall = "pending"
    /\ slackWebhookUrl = ""
    /\ externalWebhookUrl = ""
    /\ sinkCalls = EmptyBag
    /\ reconn = [a \in Accounts |-> "none"]
    /\ apiReq = NoRequest
    /\ apiRes = NoResponse
    /\ templates = <<>>
    /\ embedCalls = {}
    /\ idsIssued = 0

NextStoreDown ==
    \/ Arrival("A", TRUE)
    \/ \E c \in BagToSet(cycles) : HandleNewMailOpenBox(c)
    \/ \E c \in BagToSet(cycles) : HandleNewMailSearch(c)
    \/ \E t \in BagToSet(tasks) : ExistsStep(t)
    \/ \E t \in BagToSet(tasks) :
          \E outcome \in ClassifierOutcomes : CategorizeStep(t, outcome)
    \/ \E t \in BagToSet(tasks) :
          \E slackOk, webhookOk \in BOOLEAN : NotifyStep(t, slackOk, webhookOk)
    \/ \E t \in BagToSet(tasks) : IndexStep(t)

SpecStoreDown == InitStoreDown /\ [][NextStoreDown]_vars

(***************************************************************************)
(* The manager driven by a caller that calls start() and stop() repeatedly *)
(***************************************************************************)
\* (variant: start() never returns early)
StartNeverReturnsEarly == FALSE

\* the guard of start(): a running manager logs a warning and returns
StartReturnsEarly == isRunning

\* start() called at any moment: it returns at once when the manager is
\* running; otherwise the flag is set before the first await and
\* initialize() is called
ManagerStart ==
    /\ Alive
    /\ IF StartReturnsEarly
       THEN UNCHANGED <<isRunning, mainPc>>
       ELSE /\ isRunning' = TRUE
            /\ mainPc' = "initES"
    /\ UNCHANGED <<connState, isConnected, syncPc, serverVars, lastProcessedUID,
                   batch, cycles, tasks, store, storeUp, writeFailed, scenarioVars,
                   sinkVars, reconn, facadeVars, replyVars>>

\* stop() called before start() or after start() has returned; after it the
\* caller holds a manager on which start() can be called again
ManagerStop ==
    /\ mainPc \in {"created", "started"}
    /\ Stop
    /\ mainPc' = "created"
    /\ cycles' = EmptyBag
    /\ UNCHANGED <<syncPc, serverVars, lastProcessedUID, batch, tasks, store,
                   storeUp, writeFailed, scenarioVars, sinkVars, reconn,
                   facadeVars, replyVars>>

NextRestart ==
    \/ ManagerStart
    \/ StartConnect
    \/ ManagerStop
    \/ \E a \in Accounts :
        \/ ConnReady(a)
        \/ ConnEnd(a)
        \/ BackfillOpenBox(a)
        \/ BackfillFetchEnd(a)
        \/ \E u \in mailbox[a] : Expunge(a, u)

SpecRestart == InitRange /\ [][NextRestart]_vars

(***************************************************************************)
(* The connection status with a server that closes connections             *)
(***************************************************************************)
\* the server closes the connection that connectToAccount opened: the
\* connection emits 'end', for which connectToAccount registers no listener
ReconnEnd(a) ==
    /\ Alive
    /\ reconn[a] = "authenticated"
    /\ reconn' = [reconn EXCEPT ![a] = "ended"]
    /\ UNCHANGED <<lifecycleVars, serverVars, lastProcessedUID, batch, cycles,
                   tasks, store, storeUp, writeFailed, scenarioVars, sinkVars,
                   facadeVars, replyVars>>

NextStatus ==
    \/ NextApi
    \/ \E a \in Accounts : ReconnEnd(a)

SpecStatus == Init /\ [][NextStatus]_vars

(***************************************************************************)
(* Pagination of EmailSearchAPI.searchEmails                               *)
(***************************************************************************)

MaxPage == 2
MaxSize == 101
MaxTotal == 30

\* searchParams.page and searchParams.size: <<>> when the parameter is
\* missing, <<n>> when it is the integer n
Pages == {<<>>} \cup {<<n>> : n \in (0 - MaxPage)..MaxPage}
Sizes == {<<>>} \cup {<<n>> : n \in (0 - MaxSize)..MaxSize}

\* x || d on an optional integer: undefined and 0 are falsy
OrDefault(x, d) == IF x = <<>> \/ x = <<0>> THEN d ELSE x[1]

\* Math.min
MathMin(x, y) == IF x <= y THEN x ELSE y

\* Math.ceil(n / d) for n >= 0 and d # 0
CeilDiv(n, d) == IF d > 0 THEN (n + d - 1) \div d ELSE 0 - (n \div (0 - d))

\* const page = searchParams.page || 1
PageOf(p) == OrDefault(p.page, 1)

\* const size = Math.min(searchParams.size || 10, 100)
SizeOf(p) == MathMin(OrDefault(p.size, 10), 100)

\* const from = (page - 1) * size
FromOf(p) == (PageOf(p) - 1) * SizeOf(p)

\* the pagination object of the answer
Pagination(p, total) ==
    [page |-> PageOf(p), size |-> SizeOf(p), total |-> total,
     totalPages |-> CeilDiv(total, SizeOf(p))]

\* one call of searchEmails runs up to its await: syncManager.searchEmails(
\* query, from, size) is in flight with the two numbers it was given
PageCall(p) ==
    /\ apiReq = NoRequest
    /\ apiReq' = [op |-> "searchEmails", params |-> p]
    /\ apiRes' = [completion |-> "pending", from |-> FromOf(p), size |-> SizeOf(p)]
    /\ UNCHANGED <<lifecycleVars, serverVars, lastProcessedUID, batch, cycles,
                   tasks, store, storeUp, writeFailed, scenarioVars, sinkVars,
                   reconn, replyVars>>

\* the store answers with the number of matches
PageAnswer(total) ==
    /\ apiRes.completion = "pending"
    /\ apiRes' = Return([success |-> TRUE, query |-> apiReq.params,
                         pagination |-> Pagination(apiReq.params, total)])
    /\ UNCHANGED <<lifecycleVars, serverVars, lastProcessedUID, batch, cycles,
                   tasks, store, storeUp, writeFailed, scenarioVars, sinkVars,
                   reconn, apiReq, replyVars>>

\* the store rejects the search
PageReject ==
    /\ apiRes.completion = "pending"
    /\ apiRes' = ApiCatch(StoreError)
    /\ UNCHANGED <<lifecycleVars, serverVars, lastProcessedUID, batch, cycles,
                   tasks, store, storeUp, writeFailed, scenarioVars, sinkVars,
                   reconn, apiReq, replyVars>>

InitPage ==
    /\ Constructed
    /\ store = {}
    /\ storeUp = TRUE
    /\ apiReq = NoRequest
    /\ apiRes = NoResponse
    /\ templates = <<>>
    /\ embedCalls = {}
    /\ idsIssued = 0

NextPage ==
    \/ \E page \in Pages, size \in Sizes : PageCall([page |-> page, size |-> size])
    \/ \E total \in 0..MaxTotal : PageAnswer(total)
    \/ PageReject

SpecPage == InitPage /\ [][NextPage]_vars

(***************************************************************************)
(* ReplyVectorStore: the array of templates and its asynchronous updates   *)
(***************************************************************************)

MaxTemplates == 3
MaxEmbedCalls == 2

\* ids that addTemplate generates (Date.now() and a random suffix): the n-th
\* id is n
TemplateIds == 1..MaxTemplates

\* texts given as the context of a template
Contexts == {"apply", "decline"}

\* values of the category of a template
TemplateCategories == {"follow_up"}

\* the embedding that the remote model returns for a text
Embedding(text) == <<"embedding", text>>

\* an element that was never assigned: writing past the end of an array
\* leaves holes in between
Hole == [id |-> 0, context |-> "", category |-> "", embedding |-> <<>>]

\* Partial<Omit<ReplyTemplate, 'id' | 'embedding'>>: <<>> for a field that
\* is not given
TemplateUpdates ==
    [context : {<<>>} \cup {<<c>> : c \in Contexts},
     category : {<<>>} \cup {<<c>> : c \in TemplateCategories}]

NoUpdates == [context |-> <<>>, category |-> <<>>]

\* this.templates.findIndex(template => template.id === id) stops at the
\* first template with this id, and at a hole, where reading template.id
\* throws: the position (from 1) where it stops, 0 when it reaches the end
\* (-1 in the code)
FindIndex(arr, id) ==
    LET stops == {k \in 1..Len(arr) : arr[k] = Hole \/ arr[k].id = id}
    IN  IF stops = {} THEN 0 ELSE Min(stops)

\* findIndex throws a TypeError
FindIndexThrows(arr, id) ==
    FindIndex(arr, id) # 0 /\ arr[FindIndex(arr, id)] = Hole

\* this.templates.splice(index, 1)
Splice(arr, index) ==
    [k \in 1..(Len(arr) - 1) |-> IF k < index THEN arr[k] ELSE arr[k + 1]]

\* this.templates[index] = value: an index past the end lengthens the array
ArraySet(arr, index, value) ==
    [k \in 1..(IF index > Len(arr) THEN index ELSE Len(arr)) |->
        IF k = index THEN value
        ELSE IF k <= Len(arr) THEN arr[k] ELSE Hole]

\* { ...template, ...updates }
Spread(template, updates) ==
    [template EXCEPT
        !.context = IF updates.context = <<>> THEN @ ELSE updates.context[1],
        !.category = IF updates.category = <<>> THEN @ ELSE updates.category[1]]

\* addTemplate up to its await: the id is generated, generateEmbedding is
\* in flight
AddTemplate(context, category) ==
    /\ idsIssued < MaxTemplates
    /\ Cardinality(embedCalls) < MaxEmbedCalls
    /\ idsIssued' = idsIssued + 1
    /\ embedCalls' = embedCalls \cup
          {[op |-> "addTemplate", id |-> idsIssued + 1, templateIndex |-> 0,
            template |-> [id |-> idsIssued + 1, context |-> context,
                          category |-> category, embedding |-> <<>>],
            updates |-> NoUpdates]}
    /\ UNCHANGED <<lifecycleVars, serverVars, lastProcessedUID, batch, cycles,
                   tasks, store, storeUp, writeFailed, scenarioVars, sinkVars,
                   reconn, facadeVars, templates>>

\* removeTemplate
RemoveTemplate(id) ==
    /\ LET index == FindIndex(templates, id)
       IN  IF index = 0 \/ FindIndexThrows(templates, id) THEN UNCHANGED templates
           ELSE templates' = Splice(templates, index)
    /\ UNCHANGED <<lifecycleVars, serverVars, lastProcessedUID, batch, cycles,
                   tasks, store, storeUp, writeFailed, scenarioVars, sinkVars,
                   reconn, facadeVars, embedCalls, idsIssued>>

\* updateTemplate up to its await, or to its end when the context does not
\* change
UpdateTemplate(id, updates) ==
    /\ LET templateIndex == FindIndex(templates, id)
       IN  IF templateIndex = 0 \/ FindIndexThrows(templates, id)
           THEN UNCHANGED <<templates, embedCalls>>
           ELSE LET template == templates[templateIndex]
                IN  IF updates.context # <<>> /\ updates.context[1] # template.context
                    THEN /\ Cardinality(embedCalls) < MaxEmbedCalls
                         /\ embedCalls' = embedCalls \cup
                               {[op |-> "updateTemplate", id |-> id,
                                 templateIndex |-> templateIndex,
                                 template |-> template, updates |-> updates]}
                         /\ UNCHANGED templates
                    ELSE /\ templates' = ArraySet(templates, templateIndex,
                                                  Spread(template, updates))
                         /\ UNCHANGED embedCalls
    /\ UNCHANGED <<lifecycleVars, serverVars, lastProcessedUID, batch, cycles,
                   tasks, store, storeUp, writeFailed, scenarioVars, sinkVars,
                   reconn, facadeVars, idsIssued>>

\* generateEmbedding resolves for a call about the template id, and the
\* call runs to its end
EmbedResolved(id) ==
    /\ \E call \in embedCalls :
          /\ call.id = id
          /\ embedCalls' = embedCalls \ {call}
          /\ templates' =
                IF call.op = "addTemplate"
                THEN Append(templates,
                            [call.template EXCEPT
                                !.embedding = Embedding(call.template.context)])
                ELSE ArraySet(templates, call.templateIndex,
                              [Spread(call.template, call.updates) EXCEPT
                                  !.embedding = Embedding(call.updates.context[1])])
    /\ UNCHANGED <<lifecycleVars, serverVars, lastProcessedUID, batch, cycles,
                   tasks, store, storeUp, writeFailed, scenarioVars, sinkVars,
                   reconn, facadeVars, idsIssued>>

\* generateEmbedding rejects: addTemplate and updateTemplate reject and the
\* array is as it was
EmbedRejected(id) ==
    /\ \E call \in embedCalls : call.id = id /\ embedCalls' = embedCalls \ {call}
    /\ UNCHANGED <<lifecycleVars, serverVars, lastProcessedUID, batch, cycles,
                   tasks, store, storeUp, writeFailed, scenarioVars, sinkVars,
                   reconn, facadeVars, templates, idsIssued>>

InitReply ==
    /\ Constructed
    /\ store = {}
    /\ storeUp = TRUE
    /\ apiReq = NoRequest
    /\ apiRes = NoResponse
    /\ templates = <<>>
    /\ embedCalls = {}
    /\ idsIssued = 0

NextReply ==
    \/ \E context \in Contexts, category \in TemplateCategories :
          AddTemplate(context, category)
    \/ \E id \in TemplateIds : RemoveTemplate(id)
    \/ \E id \in TemplateIds, updates \in TemplateUpdates : UpdateTemplate(id, updates)
    \/ \E id \in TemplateIds : EmbedResolved(id)
    \/ \E id \in TemplateIds : EmbedRejected(id)

SpecReply == InitReply /\ [][NextReply]_vars

(***************************************************************************)
(* Properties                                                              *)
(***************************************************************************)
\* the runs of processEmail for an identity key that are in flight at one of
\* the positions pcs, counted with their multiplicity
InFlight(a, uid, pcs) ==
    LET ts == {t \in BagToSet(tasks) : t.acct = a /\ t.uid = uid /\ t.pc \in pcs}
    IN  BagCardinality([t \in ts |-> tasks[t]])

\* no run of processEmail and no handleNewMail cycle of account a is under
\* way, and its backfill has been handed over to the 'mail' listener
Quiescent(a) ==
    /\ Alive
    /\ syncPc[a] = "watching"
    /\ TasksOf(a) = {}
    /\ CyclesOf(a) = {}

AllUids == FirstUID..(FirstUID + MaxMsgs + BatchMsgs)

\* C1: in every reachable state the store holds at most one record per
\* identity key (accountName, folder, uid), however the processEmail runs of
\* the backfill and of new-mail handling for the same message interleave
C1_AtMostOneRecordPerKey ==
    \A a \in Accounts, u \in AllUids : Cardinality(RecordsOf(a, INBOX, u)) <= 1

\* a run of the backfill is about to write a message for which a run started
\* by new-mail handling has already stored the record
C1_Witness ==
    \E t \in BagToSet(tasks) :
        /\ t.src = "backfill"
        /\ t.pc = "index"
        /\ storeUp
        /\ Cardinality(RecordsOf(t.acct, INBOX, t.uid)) = 1
        /\ \E d \in RecordsOf(t.acct, INBOX, t.uid) : d.category # t.cat

\* C2: with the store available, once processEmail has been run on a message
\* and has returned, a second run on the same message leaves the store as it
\* found it, and after either run the store holds exactly one record for the
\* identity key
C2_SecondRunChangesNothing ==
    /\ Len(runs) = 2 => store = snap
    /\ (Len(runs) >= 1 /\ tasks = EmptyBag)
          => Cardinality(RecordsOf(runs[1][1], INBOX, runs[1][2])) = 1

\* the second run has returned and the first run was the one that wrote the record
C2_Witness ==
    /\ Len(runs) = 2
    /\ tasks = EmptyBag
    /\ Cardinality(store) = 2
    /\ Cardinality(RecordsOf(runs[2][1], INBOX, runs[2][2])) = 1

\* C3: every step that changes the watermark of an account sets it to the uid
\* of a message that is already in the store
C3_WatermarkOnlyAfterWrite ==
    [][\A a \in Accounts :
          lastProcessedUID'[a] # lastProcessedUID[a]
             => Persisted(a, lastProcessedUID'[a])]_vars

\* C4: whenever the polling cycles and the runs of an account have all ended,
\* its watermark is the highest uid among its persisted messages (0 when
\* there is none)
C4_WatermarkIsMaxPersisted ==
    \A a \in Accounts :
        Quiescent(a) => lastProcessedUID[a] = Max(PersistedUids(a) \cup {0})

\* C5: a message whose store write failed and that is still in the mailbox is
\* persisted, or being processed, or within the uid range that a search of
\* handleNewMail under way or started now asks for
C5_FailedWriteStaysInRange ==
    \A k \in writeFailed :
        LET a == k[1]
            u == k[2]
            last == lastProcessedUID[a]
            from == IF last > 0 THEN last + 1 ELSE Cardinality(mailbox[a])
        IN  (Alive /\ u \in mailbox[a]) =>
               \/ Persisted(a, u)
               \/ InFlight(a, u, {"exists", "categorize", "notify", "index"}) > 0
               \/ u \in SearchUidFrom(mailbox[a], from)
               \/ \E c \in CyclesOf(a) :
                     c.pc = "search" /\ u \in SearchUidFrom(mailbox[a], c.from)

\* C6: of the deliveries of one uid at most one gets past its existence check:
\* no two runs for the same identity key are at the classifier call, the
\* notification or the store write
C6_OneDeliveryPastExistenceCheck ==
    \A a \in Accounts, u \in AllUids :
        InFlight(a, u, {"categorize", "notify", "index"}) <= 1

\* C7: when the backfill of an account has been handed over and its runs have
\* ended, the start has not failed, no unparsable message is stored, every
\* other message of the batch is stored unless the store refused its write,
\* and the watermark is the highest uid of the batch; for a batch of three
\* whose second message fails to parse and a store that took every write,
\* exactly two records exist and the watermark is the third uid
C7_ParseFailureSkipsOneMessage ==
    \A a \in Accounts :
        (Quiescent(a) /\ batch[a] # {}) =>
            /\ syncPc[a] # "rejected"
            /\ \A u \in batch[a] \cap unparsable[a] : ~Persisted(a, u)
            /\ \A u \in batch[a] \ unparsable[a] :
                  Persisted(a, u) \/ <<a, u>> \in writeFailed
            /\ lastProcessedUID[a] = Max(batch[a])
            /\ (/\ batch[a] = {FirstUID, FirstUID + 1, FirstUID + 2}
                /\ unparsable[a] = {FirstUID + 1}
                /\ writeFailed = {})
                  => /\ Cardinality(store) = 2
                     /\ lastProcessedUID[a] = FirstUID + 2

\* the backfill of 101, 102, 103 has ended, 102 failed to parse, 101 and 103
\* are stored and the watermark is 103
C7_Witness ==
    /\ Quiescent("A")
    /\ batch["A"] = {101, 102, 103}
    /\ unparsable["A"] = {102}
    /\ PersistedUids("A") = {101, 103}
    /\ Cardinality(store) = 2
    /\ lastProcessedUID["A"] = 103

\* C8: when the connection of an account has failed during start(), the
\* process has not exited
C8_FailedAccountLeavesProcessRunning ==
    (\E a \in Accounts : syncPc[a] = "rejected") => mainPc # "exited"

\* C9: a run that has passed its existence check stays in flight, whatever
\* categorizeEmail returns or throws, until its store write: a step that
\* takes it from the classifier call puts it at the notification or the store
\* write, a step that takes it from the notification puts it at the store
\* write, and the write stores the message with the category the run holds
\* (none after a classification failure) when the store accepts it
C9_ReachesStoreWrite ==
    [][\A t \in BagToSet(tasks) :
          CopiesIn(t, tasks') < CopiesIn(t, tasks) =>
             CASE t.pc = "categorize" ->
                     \E n \in BagToSet(tasks') :
                        /\ Key(n) = Key(t)
                        /\ CopiesIn(n, tasks') > CopiesIn(n, tasks)
                        /\ \/ n.pc = "notify" /\ n.cat = "INTERESTED"
                           \/ n.pc = "index" /\ n.cat \in (CategoryLabel \cup {NoCategory})
               [] t.pc = "notify" ->
                     CopiesIn([t EXCEPT !.pc = "index"], tasks')
                        > CopiesIn([t EXCEPT !.pc = "index"], tasks)
               [] t.pc = "index" ->
                     storeUp => Document(t.acct, INBOX, t.uid, t.cat) \in store'
               [] OTHER -> TRUE]_vars

\* a message whose subject matches no fallback rule is stored without a
\* category: its classification failed and the run went on to the write
C9_Witness ==
    \E d \in store :
        /\ d.category = NoCategory
        /\ FallbackRule(SubjectOf(d.uid)) = "throw"

\* C10: the label classifyEmail maps a response text to is one of the five
\* category labels, and it is SPAM when the trimmed, upper-cased text
\* contains none of them
C10_ClassificationTotal ==
    cOut # "pending" =>
        /\ cOut \in CategoryLabel
        /\ (\A l \in CategoryLabel : ~Includes(ToUpperCase(Trim(cIn)), LabelText[l]))
              => cOut = "SPAM"

\* a non-ASCII response that names no category has been mapped to SPAM
C10_Witness ==
    /\ cOut = "SPAM"
    /\ \E i \in 1..Len(cIn) : cIn[i] = "eacute"
    /\ \A l \in CategoryLabel : ~Includes(ToUpperCase(Trim(cIn)), LabelText[l])

\* C11: a classifier response that contains the token NOT_INTERESTED is
\* mapped to NOT_INTERESTED
C11_NotInterestedIsNotInterested ==
    (cOut # "pending" /\ Includes(cIn, LabelText["NOT_INTERESTED"]))
        => cOut = "NOT_INTERESTED"

\* C12: when the classification call has failed, categorizeEmail returns one
\* of the category labels, whatever the subject
C12_FailedCallStillGivesCategory ==
    cCall = "error" => cOut \in CategoryLabel

OutOfOfficeKey == <<"o","u","t"," ","o","f"," ","o","f","f","i","c","e">>
MeetingConfirmedKey == <<"m","e","e","t","i","n","g"," ","c","o","n","f","i","r","m","e","d">>
MakeMoneyFastKey == <<"m","a","k","e"," ","m","o","n","e","y"," ","f","a","s","t">>

\* C13: when the classification call has failed, a subject that contains
\* 'out of office' in any letter case gives OUT_OF_OFFICE; otherwise one that
\* contains 'meeting confirmed' gives MEETING_BOOKED; otherwise one that
\* contains 'make money fast' gives SPAM
C13_KeywordRulesInOrder ==
    cCall = "error" =>
        LET lower == ToLowerCase(cSubject)
        IN  /\ Includes(lower, OutOfOfficeKey) => cOut = "OUT_OF_OFFICE"
            /\ (~Includes(lower, OutOfOfficeKey) /\ Includes(lower, MeetingConfirmedKey))
                  => cOut = "MEETING_BOOKED"
            /\ (/\ ~Includes(lower, OutOfOfficeKey)
                /\ ~Includes(lower, MeetingConfirmedKey)
                /\ Includes(lower, MakeMoneyFastKey))
                  => cOut = "SPAM"

\* the call has failed for the subject 'Meeting confirmed for Tuesday' and the
\* message is labelled MEETING_BOOKED
C13_Witness ==
    /\ cCall = "error"
    /\ cSubject = <<"M","e","e","t","i","n","g"," ","c","o","n","f","i","r","m","e","d",
                    " ","f","o","r"," ","T","u","e","s","d","a","y">>
    /\ cOut = "MEETING_BOOKED"

\* C14: every record of the store carries no category or one of the five
\* category labels
C14_StoredCategoryIsLabelOrNone ==
    \A d \in store : d.category \in (CategoryLabel \cup {NoCategory})

\* after a classifier success and a classifier failure the store holds a
\* record with a label and a record without category
C14_Witness ==
    /\ \E d \in store : d.category \in CategoryLabel
    /\ \E d \in store : d.category = NoCategory

\* the runs of processEmail that a step takes away from position pc
Leaving(pc) ==
    {t \in BagToSet(tasks) : t.pc = pc /\ CopiesIn(t, tasks') < CopiesIn(t, tasks)}

\* the runs of processEmail that a step puts at a position
Entering ==
    {n \in BagToSet(tasks') : CopiesIn(n, tasks') > CopiesIn(n, tasks)}

\* the posts to the sinks made for an identity key
CallsFor(sink, a, uid) ==
    LET cs == {c \in BagToSet(sinkCalls) : c.sink = sink /\ c.acct = a /\ c.uid = uid}
    IN  BagCardinality([c \in cs |-> sinkCalls[c]])

\* C15: notifyInterestedEmail is called for a message exactly when the
\* message was absent in its existence check and has been given the category
\* INTERESTED: only a run found absent gets to the classifier call, a run
\* leaves the classifier call for the notification exactly when its category
\* is INTERESTED, and the sinks are posted to only by a run that is at the
\* notification with the category INTERESTED
C15_NotifiedIffNewAndInterested ==
    [][/\ \A n \in Entering :
             /\ n.pc = "categorize" =>
                   \E t \in Leaving("exists") :
                      Key(t) = Key(n) /\ ~EmailExists(t.acct, INBOX, t.uid)
             /\ n.pc = "notify" =>
                   /\ n.cat = "INTERESTED"
                   /\ \E t \in Leaving("categorize") : Key(t) = Key(n)
             /\ (n.pc = "index" /\ n.cat = "INTERESTED") =>
                   \E t \in Leaving("notify") : Key(t) = Key(n)
       /\ sinkCalls' # sinkCalls =>
             \E t \in Leaving("notify") :
                /\ t.cat = "INTERESTED"
                /\ \A c \in BagToSet(sinkCalls') :
                      CopiesIn(c, sinkCalls') > CopiesIn(c, sinkCalls)
                         => (c.acct = t.acct /\ c.uid = t.uid)]_vars

\* one message has been notified and stored as INTERESTED, another has been
\* stored with another category or none, and no sink was posted to for it
C15_Witness ==
    \E d, e \in store :
        /\ d.category = "INTERESTED"
        /\ CallsFor("slack", d.accountName, d.uid) = 1
        /\ e.category # "INTERESTED"
        /\ CallsFor("slack", e.accountName, e.uid) = 0
        /\ CallsFor("webhook", e.accountName, e.uid) = 0

\* C16: whenever a sink has been posted to for an identity key, the store
\* holds a record for that key
C16_NotifiedOnlyAfterWrite ==
    \A c \in BagToSet(sinkCalls) : Persisted(c.acct, c.uid)

\* C17: each sink has been posted to at most once for an identity key
C17_AtMostOneNotificationPerKey ==
    \A c \in BagToSet(sinkCalls) : CallsFor(c.sink, c.acct, c.uid) <= 1

\* C18: a step that ends the notification of a message has posted to every
\* configured sink, whether or not the other sink failed, and leaves the run
\* at the store write with its category
C18_SinkFailureContained ==
    [][\A t \in Leaving("notify") :
          /\ slackWebhookUrl # "" =>
                \E c \in BagToSet(sinkCalls') :
                   /\ c.sink = "slack" /\ c.acct = t.acct /\ c.uid = t.uid
                   /\ CopiesIn(c, sinkCalls') > CopiesIn(c, sinkCalls)
          /\ externalWebhookUrl # "" =>
                \E c \in BagToSet(sinkCalls') :
                   /\ c.sink = "webhook" /\ c.acct = t.acct /\ c.uid = t.uid
                   /\ CopiesIn(c, sinkCalls') > CopiesIn(c, sinkCalls)
          /\ [t EXCEPT !.pc = "index"] \in Entering]_vars

\* the post to Slack failed for a message, the webhook was called for it all
\* the same, and the message is stored with its category
C18_Witness ==
    \E c, w \in BagToSet(sinkCalls) :
        /\ c.sink = "slack" /\ ~c.ok
        /\ w.sink = "webhook" /\ w.ok /\ w.acct = c.acct /\ w.uid = c.uid
        /\ \E d \in RecordsOf(c.acct, INBOX, c.uid) : d.category = "INTERESTED"

\* C19: whenever the watched connection of an account has been lost after
\* the account was watching, the account is watching again at some later time
C19_LostConnectionIsResumed ==
    \A a \in Accounts :
        (connState[a] = "closed" /\ syncPc[a] = "watching") ~> Watching(a)

\* C20: once the credentials of an account have been rejected, no step opens
\* a connection for the account or marks it connected
C20_AuthFailureIsTerminal ==
    [][\A a \in Accounts :
          reconn[a] = "authFailed" =>
             /\ reconn'[a] = "authFailed"
             /\ ~isConnected'[a]]_vars

\* the number of runs of processEmail of account a that have passed their
\* existence check and have not returned yet
RunsPastCheck(a) ==
    LET ts == {t \in TasksOf(a) : t.pc \in {"categorize", "notify", "index"}}
    IN  BagCardinality([t \in ts |-> tasks[t]])

\* C21: within one account the runs of processEmail complete in increasing
\* uid order: a step that ends the run of a message is taken only when no run
\* of the same account for a message with a lower uid is still in flight
C21_CompleteInUidOrder ==
    [][\A t \in BagToSet(tasks) :
          (CopiesIn(t, tasks') < CopiesIn(t, tasks) /\ Entering = {})
             => \A s \in TasksOf(t.acct) : s.uid >= t.uid]_vars

\* C22: within one account at most one run of processEmail is in flight at
\* any time
C22_OneRunPerAccount ==
    \A a \in Accounts : RunsPastCheck(a) <= 1

\* C23: an account is watching (connectAndSync has resolved and the 'mail'
\* listener is installed) only when every message of its backfill batch has
\* finished processEmail
C23_WatchingOnlyAfterBackfill ==
    \A a \in Accounts :
        syncPc[a] = "watching"
           => \A t \in TasksOf(a) : t.src # "backfill"

\* C24: once stop() has returned every connection is closed and every
\* isConnected flag is false, no handleNewMail cycle starts any more, and
\* the runs of processEmail that were in flight come to their end
C24_StopLetsRunsFinish ==
    /\ [](mainPc = "stopped" =>
            \A a \in Accounts : connState[a] = "closed" /\ ~isConnected[a])
    /\ [][mainPc = "stopped" => cycles' = cycles]_vars
    /\ (mainPc = "stopped") ~> (tasks = EmptyBag)

\* C25: a read operation changes no core state: a step of getFolders for an
\* account (its call of connectToAccount and the end of that call) leaves the
\* isConnected flags, the watched connections, the watermarks and the store
\* as they were
C25_ReadsChangeNothing ==
    [][\A a \in Accounts :
          (reconn'[a] # reconn[a]
             /\ (reconn[a] = "connecting" \/ reconn'[a] = "connecting"))
          => UNCHANGED <<isConnected, connState, lastProcessedUID, store>>]_vars

\* C26: the store is written at most once per identity key: a run of
\* processEmail writes only a key that has no record yet, and no step
\* replaces or removes a record, so that the category of a stored message
\* never changes
C26_WrittenAtMostOnce ==
    [][/\ \A t \in Leaving("index") : storeUp => ~Persisted(t.acct, t.uid)
       /\ \A d \in store : d \in store']_vars

C28_FacadeNeverThrows ==
    [][(apiRes.completion \in {"pending", "pendingIndexStats"}
          /\ apiRes'.completion \notin {"pending", "pendingIndexStats"})
       => /\ apiRes'.completion = "return"
          /\ apiRes'.value.success = storeUp
          /\ ~storeUp =>
                /\ apiRes'.value.error = StoreError.message
                /\ DOMAIN apiRes'.value \subseteq {"success", "error", "timestamp"}]_vars

\* a search was made while the store was failing and has returned
\* success = false
C28_Witness ==
    /\ apiReq.op = "searchEmails"
    /\ apiRes.completion = "return"
    /\ ~apiRes.value.success

\* C29: a search with a non-empty set of categories returns only records
\* whose category is in the set and that also satisfy the account and folder
\* filters of the request
C29_OnlyRequestedCategories ==
    (/\ apiReq.op = "searchEmails"
     /\ apiRes.completion = "return"
     /\ apiRes.value.success
     /\ apiReq.params.categories # <<>>
     /\ apiReq.params.categories[1] # {})
    => \A d \in apiRes.value.results :
          /\ d.category \in apiReq.params.categories[1]
          /\ apiReq.params.account # "" => d.accountName = apiReq.params.account
          /\ apiReq.params.folder # <<>> => d.folder = apiReq.params.folder

RequiredGiven(env, n) ==
    /\ Getenv(env, EnvKey(Digits(n), HOST)) \notin {Unset, <<<<>>>>}
    /\ Getenv(env, EnvKey(Digits(n), USER)) \notin {Unset, <<<<>>>>}
    /\ Getenv(env, EnvKey(Digits(n), PASSWORD)) \notin {Unset, <<<<>>>>}

\* the accounts of this.accounts made from the variables numbered n
AccountsNumbered(env, accounts, n) ==
    {i \in 1..Len(accounts) :
        accounts[i].config.user = Getenv(env, EnvKey(Digits(n), USER))[1]}

\* C31: an account whose IMAPn_TLS is not set is configured with TLS
\* enabled
C31_TlsDefaultsToTrue ==
    (apiReq.op = "loadAccountsFromEnv" /\ apiRes.completion = "return")
       => \A n \in 1..2 :
             (RequiredGiven(apiReq.env, n)
                /\ Getenv(apiReq.env, EnvKey(Digits(n), TLS)) = Unset)
             => \A i \in AccountsNumbered(apiReq.env, apiRes.value, n) :
                   apiRes.value[i].config.tls

\* C32: loadAccountsFromEnv makes one account for number n exactly when
\* host, user and password of n are set and not empty, whatever is missing
\* for the other numbers, and the accounts are in ascending order of n
C32_AccountsFromCompleteNumbers ==
    (apiReq.op = "loadAccountsFromEnv" /\ apiRes.completion = "return")
       => LET env == apiReq.env
              accounts == apiRes.value
              given == {n \in 1..2 : RequiredGiven(env, n)}
          IN  /\ Len(accounts) = Cardinality(given)
              /\ \A n \in given :
                    /\ Cardinality(AccountsNumbered(env, accounts, n)) = 1
                    /\ \A i \in AccountsNumbered(env, accounts, n) :
                          /\ accounts[i].config.host = Getenv(env, EnvKey(Digits(n), HOST))[1]
                          /\ accounts[i].config.password =
                                Getenv(env, EnvKey(Digits(n), PASSWORD))[1]
                          /\ ~accounts[i].isConnected
              /\ given = {1, 2} => accounts[1].config.user = <<"u","1">>

\* account 1 lacks its password, account 2 is complete and is the only
\* account made, although a variable numbered 02 is set as well
C32_Witness ==
    /\ apiReq.op = "loadAccountsFromEnv"
    /\ apiRes.completion = "return"
    /\ Getenv(apiReq.env, EnvKey(NumberOne, HOST)) # Unset
    /\ Getenv(apiReq.env, EnvKey(NumberOne, PASSWORD)) = Unset
    /\ Getenv(apiReq.env, EnvKey(NumberZeroTwo, HOST)) # Unset
    /\ Len(apiRes.value) = 1
    /\ apiRes.value[1].config.user = <<"u","2">>

\* C33: a failure of the store for one message is contained in processEmail:
\* a step in which the existence check or the write of a run fails leaves
\* main and the promises of connectAndSync as they are and takes no other
\* run away, and after a failed existence check the run goes on
C33_StoreFailureContained ==
    [][\A t \in Leaving("exists") \cup Leaving("index") :
          ~storeUp =>
             /\ UNCHANGED <<mainPc, syncPc>>
             /\ \A s \in BagToSet(tasks) :
                   s # t => CopiesIn(s, tasks') >= CopiesIn(s, tasks)
             /\ CopiesIn(t, tasks') = CopiesIn(t, tasks) - 1
             /\ t.pc = "exists" => [t EXCEPT !.pc = "categorize"] \in Entering]_vars

\* the write of one message of account A has failed while the service is
\* started, and the other message of A and the message of B are stored
C33_Witness ==
    /\ mainPc = "started"
    /\ writeFailed # {}
    /\ \E a \in Accounts, u \in {FirstUID, FirstUID + 1} :
          /\ \A k \in writeFailed : k = Key(Task(a, u, "index", NoCategory, "backfill"))
          /\ \E v \in {FirstUID, FirstUID + 1} \ {u} : Persisted(a, v)
          /\ \E b \in Accounts \ {a} : Persisted(b, FirstUID)

\* C35: while the store fails, a run whose existence check has been
\* answered goes on as for a new message: the watermark is at least its uid
\* afterwards, the run is classified, and its write is attempted
C35_FailedCheckTreatedAsNew ==
    [][~storeUp =>
          /\ \A t \in Leaving("exists") :
                /\ [t EXCEPT !.pc = "categorize"] \in Entering
                /\ lastProcessedUID'[t.acct] >= t.uid
          /\ \A t \in Leaving("categorize") :
                \E n \in Entering :
                   /\ n.acct = t.acct /\ n.uid = t.uid
                   /\ n.pc \in {"notify", "index"}
          /\ \A t \in Leaving("notify") : [t EXCEPT !.pc = "index"] \in Entering
          /\ \A t \in Leaving("index") : Key(t) \in writeFailed']_vars

\* the second message that arrived was taken as new with the store failing:
\* the watermark has been raised to its uid and its write has been attempted
C35_Witness ==
    /\ ~storeUp
    /\ store = {}
    /\ lastProcessedUID["A"] = FirstUID + 1
    /\ <<"A", FirstUID + 1>> \in writeFailed

\* C34: no step lowers the watermark of an account
C34_WatermarkNeverDecreases ==
    [][\A a \in Accounts : lastProcessedUID'[a] >= lastProcessedUID[a]]_vars

\* C36: an account reported as connected has a connection that is ready and
\* has neither failed nor ended
C36_ConnectedMeansLiveConnection ==
    \A a \in Accounts :
        isConnected[a] => (connState[a] = "authenticated" \/ reconn[a] = "authenticated")

\* C37: start() goes on to initialise and connect only when the manager was
\* not running, and then connects every account; connections are opened by
\* no other step; while the manager is not running no step, stop() included,
\* changes a connection, a status or a backfill
C37_StartStopGuards ==
    [][/\ (mainPc' = "initES" /\ mainPc # "initES") => (~isRunning /\ isRunning')
       /\ (\E a \in Accounts : connState'[a] = "connecting" /\ connState[a] # "connecting")
             => (mainPc = "initES" /\ \A a \in Accounts : connState'[a] = "connecting")
       /\ (~isRunning /\ ~isRunning')
             => UNCHANGED <<connState, isConnected, syncPc, batch, lastProcessedUID>>]_vars

\* start() has been called again after a stop(): the watermark of the first
\* backfill is set and every account is being connected anew
C37_Witness ==
    /\ mainPc = "awaitAll"
    /\ isRunning
    /\ lastProcessedUID["A"] > 0
    /\ \A a \in Accounts : connState[a] = "connecting"


\* C38: whatever integers are given as page and size (or not given), the
\* search sent to the store has a size between 1 and 100 and an offset
\* (page - 1) * size that is not negative, and the answer reports
\* totalPages = ceil(total / size)
C38_PaginationWithinBounds ==
    /\ apiRes.completion = "pending" =>
          /\ apiRes.size \in 1..100
          /\ apiRes.from >= 0
          /\ apiRes.from = (PageOf(apiReq.params) - 1) * apiRes.size
    /\ (apiRes.completion = "return" /\ apiRes.value.success) =>
          LET pg == apiRes.value.pagination
          IN  /\ pg.size \in 1..100
              /\ (pg.totalPages - 1) * pg.size < pg.total
              /\ pg.total <= pg.totalPages * pg.size


\* the templates whose id is not id, in the order of the array
OtherTemplates(arr, id) == SelectSeq(arr, LAMBDA t : t.id # id)

\* C39: whatever other calls ran while it awaited, a completing
\* updateTemplate(id, updates) leaves the number of templates and every
\* template with another id as they were; removeTemplate and an update
\* without a new context change or remove the template of one id only; and
\* a completing addTemplate only appends its own template
C39_OnlyTargetedTemplateChanges ==
    [][/\ \A call \in embedCalls \ embedCalls' :
             IF call.op = "updateTemplate"
             THEN /\ Len(templates') = Len(templates)
                  /\ OtherTemplates(templates', call.id) = OtherTemplates(templates, call.id)
             ELSE \/ templates' = templates
                  \/ /\ Len(templates') = Len(templates) + 1
                     /\ SubSeq(templates', 1, Len(templates)) = templates
                     /\ templates'[Len(templates')].id = call.id
       /\ embedCalls' = embedCalls =>
             \E id \in TemplateIds :
                /\ OtherTemplates(templates', id) = OtherTemplates(templates, id)
                /\ Len(templates') \in {Len(templates), Len(templates) - 1}
       /\ embedCalls \subseteq embedCalls' => Len(templates') <= Len(templates)]_vars

====
